---- MODULE Spec2Model ----
(***************************************************************************)
(* A model of the tcpst2 server: the TCP connection engine (src/tcp.rs),   *)
(* the core thread that drives it through its session type and the user    *)
(* thread (src/main.rs), the peer being the environment.                   *)
(*                                                                         *)
(* Sequence numbers are smoltcp's TcpSeqNumber: an i32 compared by the     *)
(* sign of the wrapping difference.  They keep their 32-bit width here;    *)
(* the operators below compute the wrapping operations without leaving     *)
(* the i32 range.                                                          *)
(***************************************************************************)
EXTENDS Integers, Sequences, FiniteSets, TLC

\* ------------------------------------------------------------------------
\* Bounds of the model
\* ------------------------------------------------------------------------

\* longest payload the peer puts in one segment
MaxPayload == 2

\* the peer stops sending once rcv_nxt is this far beyond irs + 1
MaxRcvd == 3

\* a user in CloseWait stops sending once snd_nxt is this far beyond iss + 1
MaxSent == 2

\* ------------------------------------------------------------------------
\* 32-bit sequence numbers
\* ------------------------------------------------------------------------

MaxI32 == 2147483647

MinI32 == -MaxI32 - 1

\* TcpSeqNumber + usize : self.0.wrapping_add(rhs as i32)
seq_add(a, n) ==
    IF a > MaxI32 - n
    THEN (a - MaxI32 - 1) + ((n - MaxI32) - 1)
    ELSE a + n

\* TcpSeqNumber - usize : self.0.wrapping_sub(rhs as i32)
seq_sub(a, n) ==
    IF a < MinI32 + n
    THEN (a + MaxI32 + 1) + ((MaxI32 - n) + 1)
    ELSE a - n

\* self.0.wrapping_sub(other.0), the i32 that TcpSeqNumber's ordering looks at
wrapping_sub(a, b) ==
    IF a >= 0 /\ b < 0
    THEN (IF a > MaxI32 + b THEN (a - MaxI32 - 1) - (b + MaxI32 + 1) ELSE a - b)
    ELSE IF a < 0 /\ b >= 0
         THEN (IF a < MinI32 + b THEN (a + MaxI32 + 1) + ((MaxI32 - b) + 1) ELSE a - b)
         ELSE a - b

\* TcpSeqNumber::partial_cmp : a < b
seq_lt(a, b) == wrapping_sub(a, b) < 0

\* TcpSeqNumber::partial_cmp : a <= b
seq_le(a, b) == wrapping_sub(a, b) <= 0

\* TcpSeqNumber::partial_cmp : a > b
seq_gt(a, b) == wrapping_sub(a, b) > 0

\* ------------------------------------------------------------------------
\* Addresses, segments
\* ------------------------------------------------------------------------

\* the port the server binds (LocalAddr.port, SmolLower.listen_port)
LocalPort == 555

\* the initial send sequence number chosen by recv_syn
Iss == 123

\* the fixed receive window
RcvWnd == 1000

\* the peer that sends the SYN, and somebody else
Peer == [addr |-> 1, port |-> 4000]

Stranger == [addr |-> 2, port |-> 4001]

\* payload bytes: the n first bytes of a fixed text with a line feed in it
Text == <<97, 98, 10, 99, 100>>

Payload(n) == SubSeq(Text, 1, n)

Payloads == {Payload(n) : n \in 1..MaxPayload}

\* send windows the peer advertises
Windows == {4096, 8192}

\* initial sequence numbers the peer may choose: a plain one and one next to
\* the wrap of the i32 (0x7fffffff -> 0x80000000)
IrsSet == {1000, MaxI32 - 1}

Controls == {"None", "Syn", "Fin", "Rst"}

segment_len_without_fin(seg) ==
    Len(seg.payload) + (IF seg.ctl = "Syn" THEN 1 ELSE 0)

\* TcpRepr::segment_len : payload.len() + control.len()
segment_len(seg) ==
    Len(seg.payload) + (IF seg.ctl \in {"Syn", "Fin"} THEN 1 ELSE 0)

\* the value of a variable that holds no segment
NoSeg ==
    [src_ip |-> 0, src_port |-> 0, dst_port |-> 0, ctl |-> "None", psh |-> FALSE,
     has_ack |-> FALSE, seq |-> 0, ack_number |-> 0, window |-> 0, payload |-> <<>>]

Packet(sip, sport, dport, ctl, psh, hasack, seq, ackn, wnd, payload) ==
    [src_ip |-> sip, src_port |-> sport, dst_port |-> dport, ctl |-> ctl, psh |-> psh,
     has_ack |-> hasack, seq |-> seq, ack_number |-> ackn, window |-> wnd,
     payload |-> payload]

\* ------------------------------------------------------------------------
\* The connection engine
\* ------------------------------------------------------------------------

NoTcb ==
    [snd_una |-> 0, snd_nxt |-> 0, snd_wnd |-> 0, snd_wl1 |-> 0, snd_wl2 |-> 0,
     rcv_nxt |-> 0, rcv_wnd |-> 0]

NoRemote == [addr |-> 0, port |-> 0]

\* TcpRepr::parse : the control of a segment with these flag bits
control(syn, fin, rst) ==
    CASE ~syn /\ ~fin /\ ~rst -> "None"
      [] syn /\ ~fin /\ ~rst  -> "Syn"
      [] ~syn /\ fin /\ ~rst  -> "Fin"
      [] ~syn /\ ~fin /\ rst  -> "Rst"
      [] OTHER                -> "Malformed"

\* a segment with its flag bits as the TcpPacket has them, before it is parsed
RawPacket(sip, sport, dport, syn, fin, rst, psh, hasack, seq, ackn, wnd, payload) ==
    [src_ip |-> sip, src_port |-> sport, dst_port |-> dport,
     ctl |-> control(syn, fin, rst), psh |-> psh, has_ack |-> hasack, seq |-> seq,
     ack_number |-> ackn, window |-> wnd, payload |-> payload,
     syn |-> syn, fin |-> fin, rst |-> rst]

filter_listen_any_syn(packet) == packet.syn

\* ChannelFilter for TcpListen
filter_listen(packet) ==
    /\ packet.syn
    /\ ~packet.has_ack
    /\ ~packet.rst
    /\ ~packet.fin
    /\ ~packet.psh

filter_tcp_port_only(remote, packet) ==
    packet.dst_port = LocalPort /\ packet.src_port = remote.port

\* ChannelFilter for Tcp<T>
filter_tcp(remote, packet) ==
    IF packet.src_ip # remote.addr
    THEN FALSE
    ELSE packet.dst_port = LocalPort /\ packet.src_port = remote.port

build_ack_raw_seq_after(remote, tcb, payload, fin) ==
    LET len == Len(payload) + (IF fin THEN 1 ELSE 0)
        repr == Packet(0, LocalPort, remote.port, IF fin THEN "Fin" ELSE "None", FALSE,
                       TRUE, seq_add(tcb.snd_nxt, len), tcb.rcv_nxt, tcb.rcv_wnd, payload)
    IN [pkt |-> repr,
        tcb |-> [tcb EXCEPT !.snd_nxt = seq_add(tcb.snd_nxt, len)]]

build_ack_raw_counts_ack(remote, tcb, payload, fin) ==
    LET repr == Packet(0, LocalPort, remote.port, IF fin THEN "Fin" ELSE "None", FALSE,
                       TRUE, tcb.snd_nxt, tcb.rcv_nxt, tcb.rcv_wnd, payload)
    IN [pkt |-> repr,
        tcb |-> [tcb EXCEPT !.snd_nxt = seq_add(tcb.snd_nxt, segment_len(repr) + 1)]]

\* Tcp::build_ack_raw : the segment and the TCB after it
build_ack_raw(remote, tcb, payload, fin) ==
    LET repr == Packet(0, LocalPort, remote.port, IF fin THEN "Fin" ELSE "None", FALSE,
                       TRUE, tcb.snd_nxt, tcb.rcv_nxt, tcb.rcv_wnd, payload)
    IN [pkt |-> repr,
        tcb |-> [tcb EXCEPT !.snd_nxt = seq_add(tcb.snd_nxt, segment_len(repr))]]

build_ack_with_fin(remote, tcb, payload) == build_ack_raw(remote, tcb, payload, TRUE)

build_ack(remote, tcb, payload) == build_ack_raw(remote, tcb, payload, FALSE)

build_fin_without_fin(remote, tcb) == build_ack_raw(remote, tcb, <<>>, FALSE)

build_fin(remote, tcb) == build_ack_raw(remote, tcb, <<>>, TRUE)

build_reset_at_snd_nxt(remote, tcb, seq) ==
    Packet(0, LocalPort, remote.port, "Rst", FALSE, FALSE, tcb.snd_nxt, 0, tcb.rcv_wnd, <<>>)

\* Tcp::build_reset
build_reset(remote, tcb, seq) ==
    Packet(0, LocalPort, remote.port, "Rst", FALSE, FALSE, seq, 0, tcb.rcv_wnd, <<>>)

\* TcpListen::recv_syn : the TCB, the latched peer and the SYN+ACK
recv_syn(remote_ip, syn) ==
    LET tcb0 == [rcv_nxt |-> seq_add(syn.seq, segment_len(syn)),
                 rcv_wnd |-> RcvWnd,
                 snd_wl1 |-> syn.seq,
                 snd_wl2 |-> Iss,
                 snd_una |-> Iss,
                 snd_nxt |-> Iss,
                 snd_wnd |-> syn.window]
        resp == Packet(0, LocalPort, syn.src_port, "Syn", FALSE, TRUE, Iss,
                       tcb0.rcv_nxt, tcb0.rcv_wnd, <<>>)
    IN [tcb    |-> [tcb0 EXCEPT !.snd_nxt = seq_add(tcb0.snd_nxt, segment_len(resp))],
        remote |-> [addr |-> remote_ip, port |-> syn.src_port],
        synack |-> resp]

is_seg_acceptable_one_below(tcb, seg) ==
    LET seg_seq == seg.seq
        seg_len == segment_len(seg)
        rcv_nxt == seq_sub(tcb.rcv_nxt, 1)
        rcv_wnd == tcb.rcv_wnd
    IN IF seg_len = 0
       THEN IF rcv_wnd = 0
            THEN seg_seq = rcv_nxt
            ELSE seq_le(rcv_nxt, seg_seq) /\ seq_lt(seg_seq, seq_add(rcv_nxt, rcv_wnd))
       ELSE IF rcv_wnd = 0
            THEN FALSE
            ELSE \/ seq_le(rcv_nxt, seg_seq) /\ seq_lt(seg_seq, seq_add(rcv_nxt, rcv_wnd))
                 \/ /\ seq_le(rcv_nxt, seq_sub(seq_add(seg_seq, seg_len), 1))
                    /\ seq_lt(seq_sub(seq_add(seg_seq, seg_len), 1), seq_add(rcv_nxt, rcv_wnd))

is_seg_acceptable_first_only(tcb, seg) ==
    LET seg_seq == seg.seq
        seg_len == segment_len(seg)
        rcv_nxt == tcb.rcv_nxt
        rcv_wnd == tcb.rcv_wnd
    IN IF seg_len = 0
       THEN IF rcv_wnd = 0
            THEN seg_seq = rcv_nxt
            ELSE seq_le(rcv_nxt, seg_seq) /\ seq_lt(seg_seq, seq_add(rcv_nxt, rcv_wnd))
       ELSE IF rcv_wnd = 0
            THEN FALSE
            ELSE seq_le(rcv_nxt, seg_seq) /\ seq_lt(seg_seq, seq_add(rcv_nxt, rcv_wnd))

is_seg_acceptable_always(tcb, seg) == TRUE

\* Tcp::is_seg_acceptable
is_seg_acceptable(tcb, seg) ==
    LET seg_seq == seg.seq
        seg_len == segment_len(seg)
        rcv_nxt == tcb.rcv_nxt
        rcv_wnd == tcb.rcv_wnd
    IN IF seg_len = 0
       THEN IF rcv_wnd = 0
            THEN seg_seq = rcv_nxt
            ELSE seq_le(rcv_nxt, seg_seq) /\ seq_lt(seg_seq, seq_add(rcv_nxt, rcv_wnd))
       ELSE IF rcv_wnd = 0
            THEN FALSE
            ELSE \/ seq_le(rcv_nxt, seg_seq) /\ seq_lt(seg_seq, seq_add(rcv_nxt, rcv_wnd))
                 \/ /\ seq_le(rcv_nxt, seq_sub(seq_add(seg_seq, seg_len), 1))
                    /\ seq_lt(seq_sub(seq_add(seg_seq, seg_len), 1), seq_add(rcv_nxt, rcv_wnd))

payload_from_unclipped(payload, n) == payload

\* seg.payload.get(n..).unwrap_or(&[])
payload_from(payload, n) ==
    IF n > Len(payload) THEN <<>> ELSE SubSeq(payload, n + 1, Len(payload))

pop_acked_one(rtx, ack_number) ==
    IF rtx = <<>>
    THEN rtx
    ELSE IF seq_le(seq_add(Head(rtx).seq, segment_len(Head(rtx))), ack_number)
         THEN Tail(rtx)
         ELSE rtx

pop_acked_all(rtx, ack_number) == <<>>

pop_acked_never(rtx, ack_number) == rtx

\* the while-let loop of accept: pop the acknowledged head segments
RECURSIVE pop_acked(_, _)
pop_acked(rtx, ack_number) ==
    IF rtx = <<>>
    THEN rtx
    ELSE IF seq_le(seq_add(Head(rtx).seq, segment_len(Head(rtx))), ack_number)
         THEN pop_acked(Tail(rtx), ack_number)
         ELSE rtx

\* a ReactionInner together with the TCB and the queue it leaves behind
Reaction(kind, resp, data, tcb, rtx) ==
    [kind |-> kind, resp |-> resp, data |-> data, tcb |-> tcb, rtx |-> rtx]

\* return ReactionInner::NotAcceptable(Some(self.build_ack(&[])))
challenge_ack(remote, tcb, rtx) ==
    LET b == build_ack(remote, tcb, <<>>)
    IN Reaction("NotAcceptable", <<b.pkt>>, <<>>, b.tcb, rtx)

ack_in_flight_unbounded(tcb, ack_number) == seq_lt(tcb.snd_una, ack_number)

\* self.tcb.snd_una < ack_number && ack_number <= self.tcb.snd_nxt
ack_in_flight(tcb, ack_number) ==
    seq_lt(tcb.snd_una, ack_number) /\ seq_le(ack_number, tcb.snd_nxt)

\* the Some(ack_number) arm of accept
accept_ack(T, remote, tcb, rtx, seg, payload) ==
    LET ack_number == seg.ack_number
        in_flight(t) == ack_in_flight(t, ack_number)
    IN IF T = "SynRcvd" /\ ~in_flight(tcb)
       THEN Reaction("Reset", <<build_reset(remote, tcb, ack_number)>>, <<>>, tcb, rtx)
       ELSE
         LET tcb1 == IF T = "SynRcvd"
                     THEN [tcb EXCEPT !.snd_wnd = seg.window,
                                      !.snd_wl1 = seg.seq,
                                      !.snd_wl2 = ack_number]
                     ELSE tcb
         IN IF ~in_flight(tcb1) /\ seq_gt(ack_number, tcb1.snd_nxt)
            THEN challenge_ack(remote, tcb1, rtx)
            ELSE
              LET tcb2 == IF in_flight(tcb1)
                          THEN [tcb1 EXCEPT !.snd_una = ack_number]
                          ELSE tcb1
                  rtx2 == IF in_flight(tcb1) THEN pop_acked(rtx, ack_number) ELSE rtx
                  upd  == /\ seq_le(tcb2.snd_una, ack_number)
                          /\ seq_le(ack_number, tcb2.snd_nxt)
                          /\ \/ seq_lt(tcb2.snd_wl1, seg.seq)
                             \/ tcb2.snd_wl1 = seg.seq /\ seq_le(tcb2.snd_wl2, ack_number)
                  tcb3 == IF upd
                          THEN [tcb2 EXCEPT !.snd_wnd = seg.window,
                                            !.snd_wl1 = seg.seq,
                                            !.snd_wl2 = ack_number]
                          ELSE tcb2
                  tcb4 == [tcb3 EXCEPT !.rcv_nxt = seq_add(seg.seq, segment_len(seg))]
                  b    == build_ack(remote, tcb4, <<>>)
              IN IF segment_len(seg) > 0
                 THEN Reaction("Acceptable", <<b.pkt>>, payload, b.tcb, rtx2)
                 ELSE Reaction("Acceptable", <<>>, payload, tcb4, rtx2)

accept_without_gap_check(T, remote, tcb, rtx, seg) ==
    IF ~is_seg_acceptable(tcb, seg)
    THEN IF seg.ctl = "Rst"
         THEN Reaction("NotAcceptable", <<>>, <<>>, tcb, rtx)
         ELSE challenge_ack(remote, tcb, rtx)
    ELSE
      LET payload == IF seq_gt(seg.seq, tcb.rcv_nxt)
                     THEN seg.payload
                     ELSE payload_from(seg.payload, wrapping_sub(tcb.rcv_nxt, seg.seq))
      IN IF seg.ctl = "Rst"
         THEN IF seg.seq = tcb.rcv_nxt
              THEN Reaction("Reset", <<>>, <<>>, tcb, rtx)
              ELSE challenge_ack(remote, tcb, rtx)
         ELSE IF seg.ctl = "Syn"
         THEN challenge_ack(remote, tcb, rtx)
         ELSE IF seg.has_ack
         THEN accept_ack(T, remote, tcb, rtx, seg, payload)
         ELSE Reaction("NotAcceptable", <<>>, <<>>, tcb, rtx)

accept_challenges_missing_ack(T, remote, tcb, rtx, seg) ==
    IF ~is_seg_acceptable(tcb, seg)
    THEN IF seg.ctl = "Rst"
         THEN Reaction("NotAcceptable", <<>>, <<>>, tcb, rtx)
         ELSE challenge_ack(remote, tcb, rtx)
    ELSE IF seq_gt(seg.seq, tcb.rcv_nxt)
    THEN Reaction("Acceptable", <<>>, <<>>, tcb, rtx)
    ELSE
      LET payload == payload_from(seg.payload, wrapping_sub(tcb.rcv_nxt, seg.seq))
      IN IF seg.ctl = "Rst"
         THEN IF seg.seq = tcb.rcv_nxt
              THEN Reaction("Reset", <<>>, <<>>, tcb, rtx)
              ELSE challenge_ack(remote, tcb, rtx)
         ELSE IF seg.ctl = "Syn"
         THEN challenge_ack(remote, tcb, rtx)
         ELSE IF seg.has_ack
         THEN accept_ack(T, remote, tcb, rtx, seg, payload)
         ELSE challenge_ack(remote, tcb, rtx)

\* Tcp::accept, for a connection in state T
accept(T, remote, tcb, rtx, seg) ==
    IF ~is_seg_acceptable(tcb, seg)
    THEN IF seg.ctl = "Rst"
         THEN Reaction("NotAcceptable", <<>>, <<>>, tcb, rtx)
         ELSE challenge_ack(remote, tcb, rtx)
    ELSE IF seq_gt(seg.seq, tcb.rcv_nxt)
    THEN Reaction("Acceptable", <<>>, <<>>, tcb, rtx)
    ELSE
      LET payload == payload_from(seg.payload, wrapping_sub(tcb.rcv_nxt, seg.seq))
      IN IF seg.ctl = "Rst"
         THEN IF seg.seq = tcb.rcv_nxt
              THEN Reaction("Reset", <<>>, <<>>, tcb, rtx)
              ELSE challenge_ack(remote, tcb, rtx)
         ELSE IF seg.ctl = "Syn"
         THEN challenge_ack(remote, tcb, rtx)
         ELSE IF seg.has_ack
         THEN accept_ack(T, remote, tcb, rtx, seg, payload)
         ELSE Reaction("NotAcceptable", <<>>, <<>>, tcb, rtx)

transition_close_to_last_ack(method) ==
    CASE method = "SynRcvd::recv_ack"     -> "Established"
      [] method = "Established::recv"     -> "Established"
      [] method = "Established::recv_fin" -> "CloseWait"
      [] method = "Established::close"    -> "LastAck"
      [] method = "FinWait1::recv"        -> "FinWait2"
      [] method = "CloseWait::close"      -> "LastAck"

\* the state a method of Tcp<T> leaves the connection in: the type parameters
\* of the Reaction it returns, or the type of the connection it returns
transition(method) ==
    CASE method = "SynRcvd::recv_ack"     -> "Established"
      [] method = "Established::recv"     -> "Established"
      [] method = "Established::recv_fin" -> "CloseWait"
      [] method = "Established::close"    -> "FinWait1"
      [] method = "FinWait1::recv"        -> "FinWait2"
      [] method = "CloseWait::close"      -> "LastAck"

send_established_unqueued(remote, tcb, rtx, data) ==
    LET b == build_ack(remote, tcb, data)
    IN [pkt |-> b.pkt, tcb |-> b.tcb, rtx |-> rtx]

send_established_empty(remote, tcb, rtx, data) ==
    LET b == build_ack(remote, tcb, <<>>)
    IN [pkt |-> b.pkt, tcb |-> b.tcb, rtx |-> Append(rtx, b.pkt)]

\* Tcp<Established>::send : the data segment is kept for retransmission
send_established(remote, tcb, rtx, data) ==
    LET b == build_ack(remote, tcb, data)
    IN [pkt |-> b.pkt, tcb |-> b.tcb, rtx |-> Append(rtx, b.pkt)]

\* Tcp<CloseWait>::send
send_close_wait(remote, tcb, rtx, data) ==
    LET b == build_ack(remote, tcb, data)
    IN [pkt |-> b.pkt, tcb |-> b.tcb, rtx |-> rtx]

close_established_queues_fin(remote, tcb, rtx) ==
    LET b == build_fin(remote, tcb)
    IN [pkt |-> b.pkt, tcb |-> b.tcb, rtx |-> Append(rtx, b.pkt)]

\* Tcp<Established>::close : the FIN+ACK, the queue is left alone
close_established(remote, tcb, rtx) ==
    LET b == build_fin(remote, tcb)
    IN [pkt |-> b.pkt, tcb |-> b.tcb, rtx |-> rtx]

retransmission_last(rtx) == IF rtx = <<>> THEN <<>> ELSE <<rtx[Len(rtx)]>>

\* Tcp<Established>::retransmission : the head of the queue, if any
retransmission_head(rtx) == IF rtx = <<>> THEN <<>> ELSE <<rtx[1]>>

\* Reaction::empty_acceptable
empty_acceptable(r) == r.kind = "Acceptable" /\ r.resp = <<>> /\ r.data = <<>>

\* ------------------------------------------------------------------------
\* The user thread's line reversal
\* ------------------------------------------------------------------------

RECURSIVE reverse(_)
reverse(s) == IF s = <<>> THEN <<>> ELSE Append(reverse(Tail(s)), Head(s))

\* the first line of s, without its line feed
RECURSIVE first_line(_)
first_line(s) ==
    IF s = <<>> \/ Head(s) = 10 THEN <<>> ELSE <<Head(s)>> \o first_line(Tail(s))

\* message.split_mut(|b| *b == 0x0a).for_each(|line| line.reverse())
RECURSIVE reverse_lines(_)
reverse_lines(s) ==
    LET l == first_line(s)
    IN IF Len(l) = Len(s)
       THEN reverse(l)
       ELSE reverse(l) \o <<10>> \o reverse_lines(SubSeq(s, Len(l) + 2, Len(s)))

\* ------------------------------------------------------------------------
\* State
\* ------------------------------------------------------------------------

VARIABLES
    pc,             \* where the core thread (thread_b) waits
    state,          \* the state tag of the connection object
    tcb,            \* Tcp.tcb
    retransmission, \* Tcp.retransmission
    remote,         \* Tcp.remote
    timeout,        \* the deadline of the next offer of the Established loop
    upc,            \* where the user thread (thread_a) waits
    toSys,          \* user channel, user -> core
    toUser,         \* user channel, core -> user
    irs,            \* the peer's initial sequence number
    out,            \* what the core sent in its last step, in order
    last,           \* the last step of the core and the segment it was about
    sent            \* history: the types of the messages the core sent to the user

vars == <<pc, state, tcb, retransmission, remote, timeout, upc, toSys, toUser,
          irs, out, last, sent>>

Msg_untagged(type, data) == [type |-> "Data", data |-> data]

\* a message of the user channel
Msg(type, data) == [type |-> type, data |-> data]

NoMsg == Msg("", <<>>)

NetOut(pkt) == [chan |-> "net", pkt |-> pkt, msg |-> NoMsg]

UserOut(msg) == [chan |-> "user", pkt |-> NoSeg, msg |-> msg]

Step(op, seg) == [op |-> op, seg |-> seg]

RECURSIVE NetPkts(_)
NetPkts(o) ==
    IF o = <<>> THEN <<>>
    ELSE IF Head(o).chan = "net" THEN <<Head(o).pkt>> \o NetPkts(Tail(o))
    ELSE NetPkts(Tail(o))

RECURSIVE UserMsgs(_)
UserMsgs(o) ==
    IF o = <<>> THEN <<>>
    ELSE IF Head(o).chan = "user" THEN <<Head(o).msg>> \o UserMsgs(Tail(o))
    ELSE UserMsgs(Tail(o))

\* the segments the core put on the wire in its last step
Emitted == NetPkts(out)

Init ==
    /\ pc = "await_open"
    /\ state = "Closed"
    /\ tcb = NoTcb
    /\ retransmission = <<>>
    /\ remote = NoRemote
    /\ timeout = FALSE
    /\ upc = "start"
    /\ toSys = <<>>
    /\ toUser = <<>>
    /\ irs = 0
    /\ out = <<>>
    /\ last = Step("init", NoSeg)
    /\ sent = <<>>

\* ------------------------------------------------------------------------
\* The peer: the segments it may put on the wire
\* ------------------------------------------------------------------------

\* segments that reach the core while it listens
ListenSegs ==
    { RawPacket(Peer.addr, Peer.port, LocalPort, y, f, r, p, a, s, 0,
                IF s = 1000 THEN 4096 ELSE 8192, <<>>) :
        y \in BOOLEAN, f \in BOOLEAN, r \in BOOLEAN, p \in BOOLEAN, a \in BOOLEAN,
        s \in IrsSet }

SeqOffsets == {0, 1, RcvWnd}

\* sequence numbers around the receive window
SeqChoices == {seq_sub(tcb.rcv_nxt, 1)} \cup {seq_add(tcb.rcv_nxt, d) : d \in SeqOffsets}

\* acknowledgement numbers around the send window
AckChoices ==
    {seq_sub(tcb.snd_una, 1), tcb.snd_una, seq_add(tcb.snd_una, 1),
     tcb.snd_nxt, seq_add(tcb.snd_nxt, 1)}

\* segments of the latched peer: ACK segments with and without data, FIN+ACK
\* without and with data, segments without the ACK flag under each control,
\* SYN+ACK
PeerSegs ==
    { Packet(Peer.addr, Peer.port, LocalPort, "None", FALSE, TRUE, s, a, 4096, <<>>) :
        s \in SeqChoices, a \in AckChoices }
    \cup
    { Packet(Peer.addr, Peer.port, LocalPort, "None", FALSE, TRUE, tcb.rcv_nxt, a, w, <<>>) :
        a \in AckChoices, w \in Windows }
    \cup
    { Packet(Peer.addr, Peer.port, LocalPort, "None", FALSE, TRUE, s, a, 4096, p) :
        s \in SeqChoices, a \in {tcb.snd_una, tcb.snd_nxt, seq_add(tcb.snd_nxt, 1)},
        p \in Payloads }
    \cup
    { Packet(Peer.addr, Peer.port, LocalPort, "Fin", FALSE, TRUE, s, a, 4096, <<>>) :
        s \in SeqChoices, a \in {tcb.snd_una, tcb.snd_nxt, seq_add(tcb.snd_nxt, 1)} }
    \cup
    { Packet(Peer.addr, Peer.port, LocalPort, "Fin", FALSE, TRUE, tcb.rcv_nxt, tcb.snd_nxt,
             4096, Payload(1)) }
    \cup
    { Packet(Peer.addr, Peer.port, LocalPort, c, FALSE, FALSE, s, 0, 4096, <<>>) :
        c \in Controls, s \in SeqChoices }
    \cup
    { Packet(Peer.addr, Peer.port, LocalPort, c, FALSE, FALSE, s, 0, 4096, Payload(1)) :
        c \in {"None", "Rst"}, s \in SeqChoices }
    \cup
    { Packet(Peer.addr, Peer.port, LocalPort, "Syn", FALSE, TRUE, s, tcb.snd_nxt, 4096, <<>>) :
        s \in SeqChoices }

\* segments of somebody else
StraySegs ==
    { Packet(ip, port, LocalPort, "None", FALSE, TRUE, tcb.rcv_nxt, tcb.snd_nxt, 4096, p) :
        ip \in {Peer.addr, Stranger.addr}, port \in {Peer.port, Stranger.port}, p \in {Payload(0), Payload(1)} }

\* the peer has sequence space left to send
MaySend(seg) ==
    seg.payload # <<>> => wrapping_sub(tcb.rcv_nxt, seq_add(irs, 1)) < MaxRcvd

\* ------------------------------------------------------------------------
\* The core thread (thread_b), one action per step between two receives
\* ------------------------------------------------------------------------

ToUser_twice(msg) ==
    /\ toUser' = toUser \o <<msg, msg>>
    /\ sent' = sent \o <<msg.type, msg.type>>

\* the core sends one message to the user
ToUser(msg) ==
    /\ toUser' = Append(toUser, msg)
    /\ sent' = Append(sent, msg.type)

\* the match arm that takes the reaction r to segment seg at pcv is marked
\* unreachable!(): in the syn_rcvd loop NotAcceptable(_, None) and Reset(None)
\* of Branch::Right; in the Established loop Acceptable(_, None, _) of the FIN
\* branch and every arm of the data branch but Acceptable(_, Some, Some)
unreachable_arm(pcv, seg, r) ==
    \/ /\ pcv = "syn_rcvd"
       /\ r.kind \in {"NotAcceptable", "Reset"}
       /\ r.resp = <<>>
    \/ /\ pcv = "established"
       /\ seg.ctl = "Fin"
       /\ r.kind = "Acceptable"
       /\ r.resp = <<>>
    \/ /\ pcv = "established"
       /\ seg.ctl # "Fin"
       /\ r.kind = "Acceptable"
       /\ r.data # <<>>
       /\ r.resp = <<>>

\* a panic!, todo!, unreachable! or failed expect of the core thread
Panic(r) ==
    /\ pc' = "panic"
    /\ tcb' = r.tcb
    /\ retransmission' = r.rtx
    /\ out' = <<>>
    /\ UNCHANGED <<state, toUser, sent>>

\* await Open call from user; open; TcbCreated
CoreOpen ==
    /\ pc = "await_open"
    /\ toSys # <<>>
    /\ toSys' = Tail(toSys)
    /\ state' = "Listen"
    /\ ToUser(Msg("TcbCreated", <<>>))
    /\ out' = <<UserOut(Msg("TcbCreated", <<>>))>>
    /\ pc' = "listen"
    /\ last' = Step("open", NoSeg)
    /\ UNCHANGED <<tcb, retransmission, remote, timeout, upc, irs>>

\* offer_one_with_addr drops what the Listen filter refuses, of the segments segs
ListenDropFrom(segs) ==
    /\ pc = "listen"
    /\ \E seg \in segs :
        /\ ~filter_listen(seg)
        /\ last' = Step("drop", seg)
    /\ out' = <<>>
    /\ UNCHANGED <<pc, state, tcb, retransmission, remote, timeout, upc, toSys, toUser, sent, irs>>

ListenDrop == ListenDropFrom(ListenSegs)

\* recv_syn and the SYN+ACK, the SYN being one of segs
ListenSynFrom(segs) ==
    /\ pc = "listen"
    /\ \E seg \in segs :
        /\ filter_listen(seg)
        /\ LET r == recv_syn(seg.src_ip, seg)
           IN /\ tcb' = r.tcb
              /\ remote' = r.remote
              /\ out' = <<NetOut(r.synack)>>
        /\ irs' = seg.seq
        /\ last' = Step("recv_syn", seg)
    /\ retransmission' = <<>>
    /\ state' = "SynRcvd"
    /\ pc' = "syn_rcvd"
    /\ UNCHANGED <<timeout, upc, toSys, toUser, sent>>

ListenSyn == ListenSynFrom(ListenSegs)

\* the receive loops of offer_one_filtered and offer_two_filtered drop what
\* the filter of the connection refuses
PeerDrop ==
    /\ pc \in {"syn_rcvd", "established", "fin_wait1", "fin_wait2", "close_wait_ack", "last_ack"}
    /\ \E seg \in PeerSegs \cup StraySegs :
        /\ ~filter_tcp(remote, seg)
        /\ last' = Step("drop", seg)
    /\ out' = <<>>
    /\ UNCHANGED <<pc, state, tcb, retransmission, remote, timeout, upc, toSys, toUser, sent, irs>>

\* the syn_rcvd loop
SynRcvdRecv ==
    /\ pc = "syn_rcvd"
    /\ \E seg \in PeerSegs \cup StraySegs :
        /\ filter_tcp(remote, seg)
        /\ MaySend(seg)
        /\ last' = Step("recv", seg)
        /\ LET r == accept("SynRcvd", remote, tcb, retransmission, seg)
           IN IF r.kind = "Acceptable"
              THEN \* Branch::Left : recv_ack, expect("First ACK must be empty")
                   IF empty_acceptable(r)
                   THEN /\ state' = transition("SynRcvd::recv_ack")
                        /\ tcb' = r.tcb
                        /\ retransmission' = r.rtx
                        /\ ToUser(Msg("Connected", <<>>))
                        /\ out' = <<UserOut(Msg("Connected", <<>>))>>
                        /\ pc' = "established"
                   ELSE Panic(r)
              ELSE \* Branch::Right
                   IF r.kind = "NotAcceptable" /\ r.resp # <<>>
                   THEN /\ tcb' = r.tcb
                        /\ retransmission' = r.rtx
                        /\ out' = <<NetOut(r.resp[1])>>
                        /\ UNCHANGED <<pc, state, toUser, sent>>
                   ELSE IF r.kind = "Reset" /\ r.resp # <<>>
                   THEN /\ tcb' = r.tcb
                        /\ retransmission' = r.rtx
                        /\ ToUser(Msg("Close", <<>>))
                        /\ out' = <<NetOut(r.resp[1]), UserOut(Msg("Close", <<>>))>>
                        /\ state' = "Terminal"
                        /\ pc' = "done"
                   ELSE Panic(r)
    /\ timeout' = FALSE
    /\ UNCHANGED <<remote, upc, toSys, irs>>

\* the Established loop, a segment arrived
EstablishedRecv ==
    /\ pc = "established"
    /\ \E seg \in PeerSegs \cup StraySegs :
        /\ filter_tcp(remote, seg)
        /\ MaySend(seg)
        /\ last' = Step("recv", seg)
        /\ LET r == accept("Established", remote, tcb, retransmission, seg)
           IN IF seg.ctl = "Fin"
              THEN \* the FIN branch : recv_fin
                   IF r.kind = "Acceptable" /\ r.data = <<>> /\ r.resp # <<>>
                   THEN /\ state' = transition("Established::recv_fin")
                        /\ tcb' = r.tcb
                        /\ retransmission' = r.rtx
                        /\ ToUser(Msg("Close", <<>>))
                        /\ out' = <<NetOut(r.resp[1]), UserOut(Msg("Close", <<>>))>>
                        /\ pc' = "close_wait"
                   ELSE Panic(r)
              ELSE IF r.kind = "Acceptable" /\ r.data # <<>>
              THEN \* acceptable_with_data : recv, the ACK, Data to the user
                   IF r.resp # <<>>
                   THEN /\ tcb' = r.tcb
                        /\ retransmission' = r.rtx
                        /\ ToUser(Msg("Data", r.data))
                        /\ out' = <<NetOut(r.resp[1]), UserOut(Msg("Data", r.data))>>
                        /\ pc' = "est_wait_user"
                        /\ state' = transition("Established::recv")
                   ELSE Panic(r)
              ELSE IF r.kind = "Acceptable"
              THEN \* acceptable_empty : recv(..).empty_acceptable().unwrap()
                   IF empty_acceptable(r)
                   THEN /\ tcb' = r.tcb
                        /\ retransmission' = r.rtx
                        /\ out' = <<>>
                        /\ state' = transition("Established::recv")
                        /\ UNCHANGED <<pc, toUser, sent>>
                   ELSE Panic(r)
              ELSE \* not_acceptable : the challenge ACK
                   IF r.kind = "NotAcceptable" /\ r.resp # <<>>
                   THEN /\ tcb' = r.tcb
                        /\ retransmission' = r.rtx
                        /\ out' = <<NetOut(r.resp[1])>>
                        /\ UNCHANGED <<pc, state, toUser, sent>>
                   ELSE Panic(r)
    /\ timeout' = FALSE
    /\ UNCHANGED <<remote, upc, toSys, irs>>

\* the Established loop, the deadline passed: the Timeout branch
EstablishedTimeout ==
    /\ pc = "established"
    /\ timeout
    /\ last' = Step("timeout", NoSeg)
    /\ LET ack == retransmission_head(retransmission)
       IN IF ack # <<>>
          THEN /\ out' = <<NetOut(ack[1])>>
               /\ timeout' = TRUE
               /\ UNCHANGED pc
          ELSE \* expect("Nothing to retransmit")
               /\ out' = <<>>
               /\ timeout' = FALSE
               /\ pc' = "panic"
    /\ UNCHANGED <<state, tcb, retransmission, remote, upc, toSys, toUser, sent, irs>>

\* the user's answer to Data: Data or Close
EstablishedUser ==
    /\ pc = "est_wait_user"
    /\ toSys # <<>>
    /\ toSys' = Tail(toSys)
    /\ last' = Step("user", NoSeg)
    /\ LET m == Head(toSys)
       IN IF m.type = "Data"
          THEN LET s == send_established(remote, tcb, retransmission, m.data)
               IN /\ tcb' = s.tcb
                  /\ retransmission' = s.rtx
                  /\ out' = <<NetOut(s.pkt)>>
                  /\ timeout' = TRUE
                  /\ pc' = "established"
                  /\ UNCHANGED state
          ELSE IF m.type = "Close"
          THEN LET b == close_established(remote, tcb, retransmission)
               IN /\ tcb' = b.tcb
                  /\ retransmission' = b.rtx
                  /\ out' = <<NetOut(b.pkt)>>
                  /\ state' = transition("Established::close")
                  /\ pc' = "fin_wait1"
                  /\ UNCHANGED timeout
          ELSE /\ pc' = "panic"
               /\ out' = <<>>
               /\ UNCHANGED <<tcb, retransmission, state, timeout>>
    /\ UNCHANGED <<remote, upc, toUser, sent, irs>>

\* FinWait1: offer_one_filtered, recv, expect("FIN of ACK must be empty")
FinWait1Recv ==
    /\ pc = "fin_wait1"
    /\ \E seg \in PeerSegs \cup StraySegs :
        /\ filter_tcp(remote, seg)
        /\ MaySend(seg)
        /\ last' = Step("recv", seg)
        /\ LET r == accept("FinWait1", remote, tcb, retransmission, seg)
           IN IF empty_acceptable(r)
              THEN /\ state' = transition("FinWait1::recv")
                   /\ tcb' = r.tcb
                   /\ retransmission' = r.rtx
                   /\ out' = <<>>
                   /\ pc' = "fin_wait2"
                   /\ UNCHANGED <<toUser, sent>>
              ELSE Panic(r)
    /\ UNCHANGED <<remote, timeout, upc, toSys, irs>>

\* the FinWait2 loop: recv_ack or recv_fin
FinWait2Recv ==
    /\ pc = "fin_wait2"
    /\ \E seg \in PeerSegs \cup StraySegs :
        /\ filter_tcp(remote, seg)
        /\ MaySend(seg)
        /\ last' = Step("recv", seg)
        /\ LET r == accept("FinWait2", remote, tcb, retransmission, seg)
           IN IF r.kind = "Acceptable" /\ r.resp # <<>>
              THEN /\ tcb' = r.tcb
                   /\ retransmission' = r.rtx
                   /\ out' = <<NetOut(r.resp[1])>>
                   /\ UNCHANGED <<toUser, sent>>
                   /\ IF seg.ctl = "Fin"
                      THEN state' = "Terminal" /\ pc' = "done"
                      ELSE UNCHANGED <<state, pc>>
              ELSE Panic(r)
    /\ UNCHANGED <<remote, timeout, upc, toSys, irs>>

\* the CloseWait loop: the user's Data or Close
CloseWaitUser ==
    /\ pc = "close_wait"
    /\ toSys # <<>>
    /\ toSys' = Tail(toSys)
    /\ last' = Step("user", NoSeg)
    /\ LET m == Head(toSys)
       IN IF m.type = "Data"
          THEN LET s == send_close_wait(remote, tcb, retransmission, m.data)
               IN /\ tcb' = s.tcb
                  /\ retransmission' = s.rtx
                  /\ out' = <<NetOut(s.pkt)>>
                  /\ pc' = "close_wait_ack"
                  /\ UNCHANGED state
          ELSE IF m.type = "Close"
          THEN LET b == build_fin(remote, tcb)
               IN /\ tcb' = b.tcb
                  /\ out' = <<NetOut(b.pkt)>>
                  /\ state' = transition("CloseWait::close")
                  /\ pc' = "last_ack"
                  /\ UNCHANGED retransmission
          ELSE /\ pc' = "panic"
               /\ out' = <<>>
               /\ UNCHANGED <<tcb, retransmission, state>>
    /\ UNCHANGED <<remote, timeout, upc, toUser, sent, irs>>

\* CloseWait after Data: offer_one_filtered, Tcp<CloseWait>::recv_ack
CloseWaitRecv ==
    /\ pc = "close_wait_ack"
    /\ \E seg \in PeerSegs \cup StraySegs :
        /\ filter_tcp(remote, seg)
        /\ MaySend(seg)
        /\ last' = Step("recv", seg)
        /\ LET r == accept("CloseWait", remote, tcb, retransmission, seg)
           IN IF empty_acceptable(r)
              THEN /\ tcb' = r.tcb
                   /\ retransmission' = r.rtx
                   /\ out' = <<>>
                   /\ pc' = "close_wait"
                   /\ UNCHANGED <<state, toUser, sent>>
              ELSE Panic(r)
    /\ UNCHANGED <<remote, timeout, upc, toSys, irs>>

\* LastAck: offer_one_filtered, Tcp<LastAck>::recv_ack, close
LastAckRecv ==
    /\ pc = "last_ack"
    /\ \E seg \in PeerSegs \cup StraySegs :
        /\ filter_tcp(remote, seg)
        /\ MaySend(seg)
        /\ last' = Step("recv", seg)
        /\ LET r == accept("LastAck", remote, tcb, retransmission, seg)
           IN IF empty_acceptable(r)
              THEN /\ tcb' = r.tcb
                   /\ retransmission' = r.rtx
                   /\ out' = <<>>
                   /\ state' = "Terminal"
                   /\ pc' = "done"
                   /\ UNCHANGED <<toUser, sent>>
              ELSE Panic(r)
    /\ UNCHANGED <<remote, timeout, upc, toSys, irs>>

\* ------------------------------------------------------------------------
\* The user thread (thread_a)
\* ------------------------------------------------------------------------

UserOpen ==
    /\ upc = "start"
    /\ toSys' = Append(toSys, Msg("Open", <<>>))
    /\ upc' = "await_tcb"
    /\ UNCHANGED <<pc, state, tcb, retransmission, remote, timeout, toUser, sent, irs, out, last>>

UserTcbCreated ==
    /\ upc = "await_tcb"
    /\ toUser # <<>>
    /\ toUser' = Tail(toUser)
    /\ UNCHANGED sent
    /\ upc' = "await_conn"
    /\ UNCHANGED <<pc, state, tcb, retransmission, remote, timeout, toSys, irs, out, last>>

\* offer_two: Connected or Close
UserConnected ==
    /\ upc = "await_conn"
    /\ toUser # <<>>
    /\ toUser' = Tail(toUser)
    /\ UNCHANGED sent
    /\ upc' = IF Head(toUser).type = "Connected" THEN "loop"
              ELSE IF Head(toUser).type = "Close" THEN "done"
              ELSE "panic"
    /\ UNCHANGED <<pc, state, tcb, retransmission, remote, timeout, toSys, irs, out, last>>

\* the 'top loop: Data is echoed with its lines reversed, or answered with
\* Close when it is at most one byte long; Close is received
UserLoop ==
    /\ upc = "loop"
    /\ toUser # <<>>
    /\ toUser' = Tail(toUser)
    /\ UNCHANGED sent
    /\ LET m == Head(toUser)
       IN IF m.type = "Data"
          THEN IF Len(m.data) <= 1
               THEN /\ toSys' = Append(toSys, Msg("Close", <<>>))
                    /\ upc' = "done"
               ELSE /\ toSys' = Append(toSys, Msg("Data", reverse_lines(m.data)))
                    /\ upc' = "loop"
          ELSE IF m.type = "Close"
          THEN /\ upc' = "close_wait"
               /\ UNCHANGED toSys
          ELSE /\ upc' = "panic"
               /\ UNCHANGED toSys
    /\ UNCHANGED <<pc, state, tcb, retransmission, remote, timeout, irs, out, last>>

\* after the core's Close: the user answers with Close
UserCloseWaitClose ==
    /\ upc = "close_wait"
    /\ toSys' = Append(toSys, Msg("Close", <<>>))
    /\ upc' = "done"
    /\ UNCHANGED <<pc, state, tcb, retransmission, remote, timeout, toUser, sent, irs, out, last>>

\* after the core's Close: a user that takes the Data branch of
\* ServerUserCloseWait, which thread_a never does; it sends one Data at a time
UserCloseWaitData ==
    /\ upc = "close_wait"
    /\ toSys = <<>>
    /\ wrapping_sub(tcb.snd_nxt, seq_add(Iss, 1)) < MaxSent
    /\ \E n \in 1..MaxPayload :
        toSys' = Append(toSys, Msg("Data", Payload(n)))
    /\ UNCHANGED <<pc, state, tcb, retransmission, remote, timeout, upc, toUser, sent, irs, out, last>>

Next ==
    \/ CoreOpen
    \/ ListenDrop
    \/ ListenSyn
    \/ PeerDrop
    \/ SynRcvdRecv
    \/ EstablishedRecv
    \/ EstablishedTimeout
    \/ EstablishedUser
    \/ FinWait1Recv
    \/ FinWait2Recv
    \/ CloseWaitUser
    \/ LastAckRecv
    \/ UserOpen
    \/ UserTcbCreated
    \/ UserConnected
    \/ UserLoop
    \/ UserCloseWaitClose

\* the program: the core thread with thread_a as its user.  thread_a answers
\* the core's Close with Close at once, so the core never takes the Data branch
\* of its CloseWait loop and never waits for the ACK of CloseWait data.
Spec == Init /\ [][Next]_vars

NextSession ==
    \/ Next
    \/ CloseWaitRecv
    \/ UserCloseWaitData

\* the core thread with any user of the session type ServerUserSessionType
\* that sends Data in CloseWait
SessionSpec == Init /\ [][NextSession]_vars

\* the user's endpoint of the user channel is dropped while the core waits for
\* a message of the user: the user thread ends without answering
UserDisconnect ==
    /\ pc \in {"await_open", "est_wait_user", "close_wait"}
    /\ toSys = <<>>
    /\ upc \in {"start", "loop", "close_wait"}
    /\ upc' = "gone"
    /\ UNCHANGED <<pc, state, tcb, retransmission, remote, timeout, toSys, toUser, sent, irs,
                   out, last>>

\* offer_one, offer_two of the user channel: self.recv.recv().unwrap() on a
\* channel that is empty and has no sender left
CoreUserDisconnected ==
    /\ pc \in {"await_open", "est_wait_user", "close_wait"}
    /\ toSys = <<>>
    /\ upc = "gone"
    /\ pc' = "panic"
    /\ out' = <<>>
    /\ last' = Step("disconnect", NoSeg)
    /\ UNCHANGED <<state, tcb, retransmission, remote, timeout, upc, toSys, toUser, sent, irs>>

NextDisconnect ==
    \/ Next
    \/ UserDisconnect
    \/ CoreUserDisconnected

\* the core thread with a user thread that may end while the core waits for it
DisconnectSpec == Init /\ [][NextDisconnect]_vars

\* what SmolLower::recv makes of a frame that does not parse
RecvErrors == {"MalformedIp", "MalformedTcp"}

\* the transport hands a malformed frame to a receive of the peer channel:
\* SmolLower::recv returns the error, self.lower.recv().expect("recv failed")
MalformedFrame ==
    /\ pc \in {"listen", "syn_rcvd", "established", "fin_wait1", "fin_wait2",
               "close_wait_ack", "last_ack"}
    /\ \E e \in RecvErrors : last' = Step(e, NoSeg)
    /\ pc' = "panic"
    /\ out' = <<>>
    /\ UNCHANGED <<state, tcb, retransmission, remote, timeout, upc, toSys, toUser, sent, irs>>

NextTransport ==
    \/ Next
    \/ MalformedFrame

\* the core thread on a transport that also delivers malformed frames
TransportSpec == Init /\ [][NextTransport]_vars

\* ------------------------------------------------------------------------
\* Listen on its own
\* ------------------------------------------------------------------------

\* segments that reach the listening core, from either host: every combination
\* of flags, with and without payload, under each window
SynSegs ==
    { RawPacket(h.addr, h.port, LocalPort, y, f, r, p, a, s, 0, w, Payload(n)) :
        h \in {Peer, Stranger},
        y \in BOOLEAN, f \in BOOLEAN, r \in BOOLEAN, p \in BOOLEAN, a \in BOOLEAN,
        s \in IrsSet \cup {MaxI32}, w \in Windows, n \in 0..MaxPayload }

\* the state in which the core listens: Open was answered with TcbCreated
InitListen ==
    /\ pc = "listen"
    /\ state = "Listen"
    /\ tcb = NoTcb
    /\ retransmission = <<>>
    /\ remote = NoRemote
    /\ timeout = FALSE
    /\ upc = "await_tcb"
    /\ toSys = <<>>
    /\ toUser = <<Msg("TcbCreated", <<>>)>>
    /\ irs = 0
    /\ out = <<UserOut(Msg("TcbCreated", <<>>))>>
    /\ last = Step("open", NoSeg)
    /\ sent = <<"TcbCreated">>

ListenDropAny == ListenDropFrom(SynSegs)

ListenSynAny == ListenSynFrom(SynSegs)

NextListen ==
    \/ ListenDropAny
    \/ ListenSynAny

\* the listening core and whatever segment arrives first
ListenSpec == InitListen /\ [][NextListen]_vars

\* ------------------------------------------------------------------------
\* The acceptance test on its own
\* ------------------------------------------------------------------------

\* receive windows: none, the smallest ones, the one recv_syn sets
TestWindows == {0, 1, 2, RcvWnd}

\* values of rcv_nxt: a plain one and those around the wrap of the i32 and of
\* the u32
TestRcvNxt == {1000, MaxI32 - 1, MaxI32, MinI32, -1, 0}

\* distances of seg.seq from rcv_nxt, before it and from it on
TestBefore == {1, 2, 3}

TestFrom == {0, 1, 2, 3, RcvWnd - 1, RcvWnd, RcvWnd + 1}

\* the segments the test is applied to, for a given rcv_nxt: payloads of 0 to 3
\* bytes, with and without FIN
TestSegs(rcv_nxt) ==
    { Packet(Peer.addr, Peer.port, LocalPort, c, FALSE, TRUE, s, Iss, 4096, Payload(n)) :
        c \in {"None", "Fin"},
        s \in {seq_sub(rcv_nxt, d) : d \in TestBefore} \cup {seq_add(rcv_nxt, d) : d \in TestFrom},
        n \in 0..3 }

InitAcceptable ==
    /\ pc = "call"
    /\ state = "Established"
    /\ \E n \in TestRcvNxt, w \in TestWindows :
          /\ tcb = [NoTcb EXCEPT !.rcv_nxt = n, !.rcv_wnd = w]
          /\ \E seg \in TestSegs(n) : last = Step("is_seg_acceptable", seg)
    /\ retransmission = <<>>
    /\ remote = Peer
    /\ timeout = FALSE
    /\ upc = "start"
    /\ toSys = <<>>
    /\ toUser = <<>>
    /\ irs = 0
    /\ out = <<>>
    /\ sent = <<>>

\* the test is applied to the segment; out holds what it returned
IsSegAcceptable ==
    /\ pc = "call"
    /\ pc' = "return"
    /\ out' = <<is_seg_acceptable(tcb, last.seg)>>
    /\ UNCHANGED <<state, tcb, retransmission, remote, timeout, upc, toSys, toUser, irs,
                   last, sent>>

NextAcceptable == IsSegAcceptable

AcceptableSpec == InitAcceptable /\ [][NextAcceptable]_vars

\* ------------------------------------------------------------------------
\* build_ack and build_fin on their own
\* ------------------------------------------------------------------------

\* values of snd_nxt: the first one after the handshake and those around the
\* wrap of the i32 and of the u32
TestSndNxt == {seq_add(Iss, 1), MaxI32 - 1, MaxI32, -2, -1}

\* a TCB with snd_nxt, rcv_nxt and rcv_wnd drawn from the test values, and
\* the call to make: build_ack with a payload of 0 to 3 bytes, or build_fin
InitBuild ==
    /\ pc = "call"
    /\ state = "Established"
    /\ \E s \in TestSndNxt, n \in TestRcvNxt, w \in TestWindows :
          tcb = [NoTcb EXCEPT !.snd_una = seq_sub(s, 1), !.snd_nxt = s,
                              !.rcv_nxt = n, !.rcv_wnd = w]
    /\ \/ \E k \in 0..3 : last = Step("build_ack", [NoSeg EXCEPT !.payload = Payload(k)])
       \/ last = Step("build_fin", NoSeg)
    /\ retransmission = <<>>
    /\ remote = Peer
    /\ timeout = FALSE
    /\ upc = "start"
    /\ toSys = <<>>
    /\ toUser = <<>>
    /\ irs = 0
    /\ out = <<>>
    /\ sent = <<>>

\* build_ack is called with the payload of last.seg
BuildAck ==
    /\ pc = "call"
    /\ last.op = "build_ack"
    /\ LET b == build_ack(remote, tcb, last.seg.payload)
       IN /\ out' = <<NetOut(b.pkt)>>
          /\ tcb' = b.tcb
    /\ pc' = "return"
    /\ UNCHANGED <<state, retransmission, remote, timeout, upc, toSys, toUser, irs, last, sent>>

\* build_fin is called
BuildFin ==
    /\ pc = "call"
    /\ last.op = "build_fin"
    /\ LET b == build_fin(remote, tcb)
       IN /\ out' = <<NetOut(b.pkt)>>
          /\ tcb' = b.tcb
    /\ pc' = "return"
    /\ UNCHANGED <<state, retransmission, remote, timeout, upc, toSys, toUser, irs, last, sent>>

NextBuild ==
    \/ BuildAck
    \/ BuildFin

BuildSpec == InitBuild /\ [][NextBuild]_vars

TypeOK ==
    /\ upc \in {"start", "await_tcb", "await_conn", "loop", "close_wait", "done", "panic",
               "gone"}
    /\ pc \in {"await_open", "listen", "syn_rcvd", "established", "est_wait_user",
               "fin_wait1", "fin_wait2", "close_wait", "close_wait_ack", "last_ack",
               "done", "panic"}
    /\ state \in {"Closed", "Listen", "SynRcvd", "Established", "FinWait1", "FinWait2",
                  "CloseWait", "LastAck", "Terminal"}
    /\ timeout \in BOOLEAN

\* ------------------------------------------------------------------------
\* Vocabulary of the properties
\* ------------------------------------------------------------------------

ConnStates == {"SynRcvd", "Established", "FinWait1", "FinWait2", "CloseWait", "LastAck"}

\* a step of the core thread (the user thread never appends to toUser and
\* never takes from toSys)
CoreStep == upc' = upc /\ Len(toUser') >= Len(toUser) /\ Len(toSys') <= Len(toSys)

\* a step in which the core handles the segment last'.seg, which passed the filter
RecvStep == CoreStep /\ last'.op = "recv"

\* the reaction of the engine to the segment of a RecvStep
StepReaction == accept(state, remote, tcb, retransmission, last'.seg)

\* pkt is the empty ACK that build_ack makes of the TCB t
IsChallengeAck(pkt, t) ==
    /\ pkt.ctl = "None"
    /\ pkt.has_ack
    /\ pkt.seq = t.snd_nxt
    /\ pkt.ack_number = t.rcv_nxt
    /\ pkt.window = t.rcv_wnd
    /\ pkt.payload = <<>>

\* nothing of the connection changes in the step
ConnUnchanged == tcb' = tcb /\ retransmission' = retransmission /\ state' = state

\* the step sends exactly one challenge ACK and changes nothing
OneChallengeAck ==
    /\ Len(Emitted') = 1
    /\ IsChallengeAck(Emitted'[1], tcb)
    /\ UserMsgs(out') = <<>>
    /\ ConnUnchanged

\* ------------------------------------------------------------------------
\* C1
\* ------------------------------------------------------------------------

\* C1: in every state of a connection, snd_una <= snd_nxt in the modular
\* order of sequence numbers.
C1_SndUnaLeSndNxt ==
    state \in ConnStates => seq_le(tcb.snd_una, tcb.snd_nxt)

\* an ACK has acknowledged a part of what is in flight
C1_Witness ==
    /\ state = "Established"
    /\ seq_gt(tcb.snd_una, seq_add(Iss, 1))
    /\ seq_lt(tcb.snd_una, tcb.snd_nxt)

\* ------------------------------------------------------------------------
\* C2
\* ------------------------------------------------------------------------

C2_ClaimedEdges ==
    {<<"Closed", "Listen">>, <<"Listen", "SynRcvd">>, <<"SynRcvd", "Established">>,
     <<"Established", "FinWait1">>, <<"FinWait1", "FinWait2">>, <<"FinWait2", "Terminal">>,
     <<"Established", "CloseWait">>, <<"CloseWait", "LastAck">>, <<"LastAck", "Terminal">>}

\* C2 as claimed: every change of the connection state follows an edge of
\* Closed -> Listen -> SynRcvd -> Established -> FinWait1 -> FinWait2 -> terminal,
\* Established -> CloseWait -> LastAck -> terminal.
C2_Original ==
    [][state' # state => <<state, state'>> \in C2_ClaimedEdges]_vars

\* C2 amended: every change of the connection state follows an edge of the
\* claimed graph or the edge SynRcvd -> terminal, taken when the core answers
\* a bad ACK with a RST and ends.
C2_StateGraph ==
    [][state' # state =>
         <<state, state'>> \in C2_ClaimedEdges \cup {<<"SynRcvd", "Terminal">>}]_vars

\* the connection ended after its own FIN was sent
C2_Witness ==
    /\ state = "Terminal"
    /\ pc = "done"
    /\ seq_gt(tcb.snd_nxt, seq_add(Iss, 1))

\* ------------------------------------------------------------------------
\* C3
\* ------------------------------------------------------------------------

\* seg.payload[max(0, rcv_nxt - seg.seq) ..]
C3_Clipped(seg, rcv_nxt) ==
    LET d == wrapping_sub(rcv_nxt, seg.seq)
        k == IF d > 0 THEN d ELSE 0
    IN IF k >= Len(seg.payload) THEN <<>> ELSE SubSeq(seg.payload, k + 1, Len(seg.payload))

\* the segment of the step is accepted: rcv_nxt moves to its end, and in
\* Established its clipped payload goes to the user
C3_Delivered ==
    /\ tcb'.rcv_nxt = seq_add(last'.seg.seq, segment_len(last'.seg))
    /\ StepReaction.data = C3_Clipped(last'.seg, tcb.rcv_nxt)
    /\ (pc = "established" /\ last'.seg.ctl = "None") =>
          UserMsgs(out') = <<Msg("Data", C3_Clipped(last'.seg, tcb.rcv_nxt))>>

\* C3 as claimed: every data-bearing segment reported Acceptable leaves
\* rcv_nxt = seg.seq + seg.len and hands on seg.payload[max(0, rcv_nxt - seg.seq) ..].
C3_Original ==
    [][(RecvStep /\ last'.seg.payload # <<>> /\ StepReaction.kind = "Acceptable")
         => C3_Delivered]_vars

\* C3 amended: every data-bearing segment reported Acceptable with
\* seg.seq <= rcv_nxt leaves rcv_nxt = seg.seq + seg.len and hands on
\* seg.payload[rcv_nxt - seg.seq ..]; one reported Acceptable with
\* seg.seq > rcv_nxt leaves the TCB as it is and hands on nothing.
C3_AcceptedData ==
    [][(RecvStep /\ last'.seg.payload # <<>> /\ StepReaction.kind = "Acceptable")
         => IF seq_le(last'.seg.seq, tcb.rcv_nxt)
            THEN C3_Delivered
            ELSE /\ tcb' = tcb
                 /\ StepReaction.data = <<>>
                 /\ \A i \in DOMAIN out' : out'[i].msg.type # "Data"]_vars

\* a segment that starts below rcv_nxt was accepted and its tail delivered
C3_Witness ==
    /\ pc = "est_wait_user"
    /\ last.op = "recv"
    /\ Len(last.seg.payload) = 2
    /\ toUser # <<>>
    /\ toUser[Len(toUser)] = Msg("Data", <<98>>)

\* ------------------------------------------------------------------------
\* C4
\* ------------------------------------------------------------------------

\* C4: every queued segment ends beyond snd_una.
C4_QueueUnacked ==
    \A i \in DOMAIN retransmission :
        seq_gt(seq_add(retransmission[i].seq, segment_len(retransmission[i])), tcb.snd_una)

\* two segments are queued and an ACK has covered a part of the first
C4_Witness ==
    /\ Len(retransmission) = 2
    /\ seq_lt(retransmission[1].seq, tcb.snd_una)

\* ------------------------------------------------------------------------
\* C5
\* ------------------------------------------------------------------------

\* the segment of the step carries an ACK number beyond snd_nxt
C5_AckBeyond == last'.seg.has_ack /\ seq_gt(last'.seg.ack_number, tcb.snd_nxt)

C6_DuplicateData ==
    /\ RecvStep
    /\ pc = "established"
    /\ last'.seg.ctl = "None"
    /\ last'.seg.has_ack
    /\ last'.seg.payload # <<>>
    /\ seq_le(seq_add(last'.seg.seq, Len(last'.seg.payload)), tcb.rcv_nxt)

\* the step delivers, in Established, the empty ACK that the core has just accepted
C6_DuplicateAck ==
    /\ RecvStep
    /\ pc = "established"
    /\ last.op = "recv"
    /\ Emitted = <<>>
    /\ last'.seg = last.seg
    /\ last'.seg.ctl = "None"
    /\ last'.seg.has_ack
    /\ last'.seg.payload = <<>>

C7_ConnectedAfterHandshake ==
    (state = "Established" /\ UserMsgs(out) = <<Msg("Connected", <<>>)>>)
        => /\ tcb.snd_una = seq_add(Iss, 1)
           /\ tcb.snd_nxt = seq_add(Iss, 1)
           /\ tcb.rcv_nxt = seq_add(irs, 1)

\* ------------------------------------------------------------------------
\* C8
\* ------------------------------------------------------------------------

\* the step handles, in Established, a segment that fails the sequence test
C8_Unacceptable ==
    /\ RecvStep
    /\ pc = "established"
    /\ ~is_seg_acceptable(tcb, last'.seg)

\* C8: in Established, every segment that passes the filter and fails the
\* sequence test causes exactly one challenge ACK (seq = snd_nxt,
\* ack = rcv_nxt), changes nothing, and the core goes on.
C8_Original ==
    [][C8_Unacceptable => (OneChallengeAck /\ pc' = "established")]_vars

\* ------------------------------------------------------------------------
\* C9
\* ------------------------------------------------------------------------

\* C9: when the deadline passes in Established with a segment queued, the core
\* emits the head of the retransmission queue as it is, leaves the queue and
\* the TCB unchanged and arms the deadline again.
C9_Retransmission ==
    [][(CoreStep /\ pc = "established" /\ timeout /\ last'.op = "timeout"
          /\ retransmission # <<>>)
         => /\ Emitted' = <<Head(retransmission)>>
            /\ UserMsgs(out') = <<>>
            /\ ConnUnchanged
            /\ timeout'
            /\ pc' = "established"]_vars

\* the older of two queued segments was retransmitted
C9_Witness ==
    /\ last.op = "timeout"
    /\ Len(retransmission) = 2
    /\ Emitted = <<retransmission[1]>>
    /\ timeout

\* ------------------------------------------------------------------------
\* C10
\* ------------------------------------------------------------------------

\* the step handles, in Established, a FIN+ACK with seq = rcv_nxt
C10_FinInSequence ==
    /\ RecvStep
    /\ pc = "established"
    /\ last'.seg.ctl = "Fin"
    /\ last'.seg.has_ack
    /\ last'.seg.seq = tcb.rcv_nxt

\* the core acknowledges the FIN, tells the user and enters CloseWait
C10_FinAcked ==
    /\ Len(out') = 2
    /\ out'[1].chan = "net"
    /\ IsChallengeAck(out'[1].pkt, tcb')
    /\ out'[1].pkt.ack_number = seq_add(last'.seg.seq, 1)
    /\ out'[2] = UserOut(Msg("Close", <<>>))
    /\ toUser' = Append(toUser, Msg("Close", <<>>))
    /\ state' = "CloseWait"
    /\ pc' = "close_wait"

\* in CloseWait the user's Close makes the core emit FIN+ACK and enter LastAck
C10_UserClose ==
    (CoreStep /\ pc = "close_wait" /\ toSys # <<>> /\ Head(toSys).type = "Close"
       /\ last'.op = "user")
      => /\ Len(Emitted') = 1
         /\ Emitted'[1].ctl = "Fin"
         /\ Emitted'[1].has_ack
         /\ Emitted'[1].seq = tcb.snd_nxt
         /\ Emitted'[1].ack_number = tcb.rcv_nxt
         /\ state' = "LastAck"
         /\ pc' = "last_ack"

\* in LastAck the peer's ACK of the FIN ends the core
C10_LastAck ==
    (RecvStep /\ pc = "last_ack" /\ last'.seg.ctl = "None" /\ last'.seg.has_ack
       /\ last'.seg.payload = <<>> /\ last'.seg.seq = tcb.rcv_nxt
       /\ last'.seg.ack_number = tcb.snd_nxt)
      => /\ pc' = "done"
         /\ state' = "Terminal"
         /\ out' = <<>>

\* C10 as claimed: a FIN+ACK with seq = rcv_nxt in Established is answered
\* with an ACK (ack = fin.seq + 1), Close goes to the user and the core enters
\* CloseWait; the user's Close then makes it emit FIN+ACK and enter LastAck,
\* and the peer's ACK ends it.
C10_Original ==
    [][/\ C10_FinInSequence => C10_FinAcked
       /\ C10_UserClose
       /\ C10_LastAck]_vars

\* C10 amended: the same, for a FIN+ACK with seq = rcv_nxt that carries no
\* payload and whose ACK number is not beyond snd_nxt.
C10_PeerClose ==
    [][/\ (/\ C10_FinInSequence
           /\ last'.seg.payload = <<>>
           /\ ~seq_gt(last'.seg.ack_number, tcb.snd_nxt)) => C10_FinAcked
       /\ C10_UserClose
       /\ C10_LastAck]_vars

\* the core ended from LastAck, on the peer's ACK of its FIN
C10_Witness ==
    /\ pc = "done"
    /\ state = "Terminal"
    /\ last.op = "recv"
    /\ out = <<>>
    /\ last.seg.ack_number = tcb.snd_nxt
    /\ tcb.snd_una = tcb.snd_nxt

\* ------------------------------------------------------------------------
\* C11
\* ------------------------------------------------------------------------

\* the step takes the user's answer m in the state where the core waits at pc
UserStep(at, type) ==
    /\ CoreStep
    /\ pc = at
    /\ toSys # <<>>
    /\ Head(toSys).type = type
    /\ last'.op = "user"

\* the segment of the step is an empty ACK in sequence
EmptyAckInSequence ==
    /\ last'.seg.ctl = "None"
    /\ last'.seg.has_ack
    /\ last'.seg.payload = <<>>
    /\ last'.seg.seq = tcb.rcv_nxt

\* on the user's Close in Established the core emits FIN+ACK at snd_nxt,
\* advances snd_nxt by one and enters FinWait1
C11_UserClose ==
    UserStep("est_wait_user", "Close")
      => /\ Len(Emitted') = 1
         /\ Emitted'[1].ctl = "Fin"
         /\ Emitted'[1].has_ack
         /\ Emitted'[1].seq = tcb.snd_nxt
         /\ Emitted'[1].ack_number = tcb.rcv_nxt
         /\ tcb'.snd_nxt = seq_add(tcb.snd_nxt, 1)
         /\ state' = "FinWait1"
         /\ pc' = "fin_wait1"

\* the peer's ACK of the FIN moves the core to FinWait2
C11_AckOfFin ==
    (RecvStep /\ pc = "fin_wait1" /\ EmptyAckInSequence
       /\ last'.seg.ack_number = tcb.snd_nxt)
      => /\ state' = "FinWait2"
         /\ pc' = "fin_wait2"
         /\ out' = <<>>
         /\ tcb'.snd_una = tcb.snd_nxt

\* the step handles a FIN+ACK in FinWait2
C11_FinInFinWait2 ==
    /\ RecvStep
    /\ pc = "fin_wait2"
    /\ last'.seg.ctl = "Fin"
    /\ last'.seg.has_ack

\* the FIN is answered with one ACK, ack = fin.seq + 1, and the core ends
C11_FinAnswered ==
    /\ Len(Emitted') = 1
    /\ IsChallengeAck(Emitted'[1], tcb')
    /\ Emitted'[1].ack_number = seq_add(last'.seg.seq, 1)
    /\ UserMsgs(out') = <<>>
    /\ state' = "Terminal"
    /\ pc' = "done"

\* C11 as claimed: the user's Close in Established makes the core emit FIN+ACK
\* at snd_nxt and enter FinWait1, the peer's ACK of it moves the core to
\* FinWait2, and a FIN+ACK in FinWait2 is answered with one ACK,
\* ack = fin.seq + 1, after which the core ends.
C11_Original ==
    [][/\ C11_UserClose
       /\ C11_AckOfFin
       /\ C11_FinInFinWait2 => C11_FinAnswered]_vars

\* C11 amended: the same, for a FIN+ACK in FinWait2 with seq = rcv_nxt, no
\* payload and an ACK number not beyond snd_nxt.
C11_LocalClose ==
    [][/\ C11_UserClose
       /\ C11_AckOfFin
       /\ (/\ C11_FinInFinWait2
           /\ last'.seg.seq = tcb.rcv_nxt
           /\ last'.seg.payload = <<>>
           /\ ~seq_gt(last'.seg.ack_number, tcb.snd_nxt)) => C11_FinAnswered]_vars

\* the core ended from FinWait2, on the peer's FIN, with its own FIN acknowledged
C11_Witness ==
    /\ pc = "done"
    /\ state = "Terminal"
    /\ last.op = "recv"
    /\ last.seg.ctl = "Fin"
    /\ Len(Emitted) = 1
    /\ Emitted[1].ack_number = seq_add(last.seg.seq, 1)
    /\ tcb.snd_una = tcb.snd_nxt
    /\ tcb.snd_nxt = seq_add(Iss, 4)

\* ------------------------------------------------------------------------
\* C12
\* ------------------------------------------------------------------------

\* the step accepts, in Established, an ACK segment whose payload the engine
\* hands on (the acceptable_with_data branch)
C12_DataAccepted ==
    /\ RecvStep
    /\ pc = "established"
    /\ last'.seg.ctl # "Fin"
    /\ StepReaction.kind = "Acceptable"
    /\ StepReaction.data # <<>>

\* first the empty ACK with ack = seg.seq + seg.len, then Data to the user,
\* then the core waits for the user
C12_AckThenData ==
    /\ Len(out') = 2
    /\ out'[1].chan = "net"
    /\ IsChallengeAck(out'[1].pkt, tcb')
    /\ out'[1].pkt.ack_number = seq_add(last'.seg.seq, segment_len(last'.seg))
    /\ out'[2] = UserOut(Msg("Data", StepReaction.data))
    /\ toUser' = Append(toUser, Msg("Data", StepReaction.data))
    /\ pc' = "est_wait_user"

\* while the core waits for the user's answer, its only step is to take Data
\* or Close from the user
C12_WaitsForUser ==
    (pc = "est_wait_user"
       /\ <<pc, state, tcb, retransmission, timeout, out, last>>'
            # <<pc, state, tcb, retransmission, timeout, out, last>>)
      => /\ last'.op = "user"
         /\ toSys # <<>>
         /\ toSys' = Tail(toSys)
         /\ Head(toSys).type \in {"Data", "Close"}

\* the user's Data goes out as one ACK segment with that payload at snd_nxt
C12_DataReply ==
    UserStep("est_wait_user", "Data")
      => /\ Len(Emitted') = 1
         /\ Emitted'[1].ctl = "None"
         /\ Emitted'[1].has_ack
         /\ Emitted'[1].payload = Head(toSys).data
         /\ Emitted'[1].payload # <<>>
         /\ Emitted'[1].seq = tcb.snd_nxt
         /\ Emitted'[1].ack_number = tcb.rcv_nxt
         /\ UserMsgs(out') = <<>>
         /\ pc' = "established"

\* C12: for every data segment accepted in Established the core emits an empty
\* ACK with ack = seg.seq + seg.len, then forwards Data to the user, and handles
\* no peer segment until the user has answered with Data or Close; the user's
\* Data goes out as exactly one data-bearing ACK with seq = snd_nxt.
C12_DataExchange ==
    [][/\ C12_DataAccepted => C12_AckThenData
       /\ C12_WaitsForUser
       /\ C12_DataReply]_vars

\* the user's reversed line went out in answer to the data the core forwarded
C12_Witness ==
    /\ pc = "established"
    /\ last.op = "user"
    /\ Len(Emitted) = 1
    /\ Emitted[1].payload = <<98, 97>>
    /\ Emitted[1].seq = seq_add(Iss, 1)
    /\ tcb.rcv_nxt = seq_add(irs, 3)

\* ------------------------------------------------------------------------
\* C13
\* ------------------------------------------------------------------------

\* C13: at every entry into FinWait2 the FIN of the core has been
\* acknowledged: snd_una = snd_nxt.
C13_FinWait2AfterAckOfFin ==
    [][(state = "FinWait1" /\ state' = "FinWait2") => tcb'.snd_una = tcb'.snd_nxt]_vars

\* ------------------------------------------------------------------------
\* C14
\* ------------------------------------------------------------------------

\* C14: the core ends from LastAck only on a segment that acknowledges its
\* FIN: the ACK number of the segment is snd_nxt and snd_una = snd_nxt.
C14_EndAfterAckOfFin ==
    [][(state = "LastAck" /\ state' = "Terminal")
         => /\ last'.seg.has_ack
            /\ last'.seg.ack_number = tcb'.snd_nxt
            /\ tcb'.snd_una = tcb'.snd_nxt]_vars

\* ------------------------------------------------------------------------
\* C15
\* ------------------------------------------------------------------------

\* C15: in FinWait1 a FIN+ACK of the peer that is in sequence and acknowledges
\* the FIN of the core is answered with one ACK, and the core ends.
C15_SimultaneousClose ==
    [][(/\ RecvStep
        /\ pc = "fin_wait1"
        /\ last'.seg.ctl = "Fin"
        /\ last'.seg.has_ack
        /\ last'.seg.payload = <<>>
        /\ last'.seg.seq = tcb.rcv_nxt
        /\ last'.seg.ack_number = tcb.snd_nxt)
         => /\ Len(Emitted') = 1
            /\ IsChallengeAck(Emitted'[1], tcb')
            /\ Emitted'[1].ack_number = seq_add(last'.seg.seq, 1)
            /\ state' = "Terminal"
            /\ pc' = "done"]_vars

\* ------------------------------------------------------------------------
\* C16
\* ------------------------------------------------------------------------

\* C16: in FinWait2 every ACK segment without FIN that passes the filter, empty
\* or with data, is answered with one empty ACK, nothing goes to the user and
\* the core stays in FinWait2; the loop ends only on a segment with FIN.
C16_FinWait2Loop ==
    [][/\ (RecvStep /\ pc = "fin_wait2" /\ last'.seg.ctl = "None" /\ last'.seg.has_ack)
            => /\ Len(Emitted') = 1
               /\ Emitted'[1].ctl = "None"
               /\ Emitted'[1].has_ack
               /\ Emitted'[1].payload = <<>>
               /\ UserMsgs(out') = <<>>
               /\ toUser' = toUser
               /\ state' = "FinWait2"
               /\ pc' = "fin_wait2"
       /\ (pc = "fin_wait2" /\ pc' = "done") => last'.seg.ctl = "Fin"]_vars

\* ------------------------------------------------------------------------
\* C17
\* ------------------------------------------------------------------------

\* the step handles the segment last'.seg while the core listens
C17_ListenStep ==
    /\ CoreStep
    /\ pc = "listen"
    /\ last'.op \in {"drop", "recv_syn"}

\* SYN set and ACK, RST, FIN, PSH clear
C17_PureSyn(seg) == seg.syn /\ ~seg.has_ack /\ ~seg.rst /\ ~seg.fin /\ ~seg.psh

\* C17: in Listen a segment is consumed and creates the TCB if and only if it
\* has SYN set and ACK, RST, FIN and PSH clear; every other segment is dropped
\* with no reply and the core stays in Listen.
C17_ListenFilter ==
    [][C17_ListenStep =>
         IF C17_PureSyn(last'.seg)
         THEN /\ last'.op = "recv_syn"
              /\ state' = "SynRcvd"
              /\ tcb'.rcv_nxt = seq_add(last'.seg.seq, 1)
              /\ tcb'.snd_una = Iss
              /\ remote' = [addr |-> last'.seg.src_ip, port |-> last'.seg.src_port]
         ELSE /\ last'.op = "drop"
              /\ out' = <<>>
              /\ tcb' = NoTcb
              /\ remote' = NoRemote
              /\ state' = "Listen"
              /\ pc' = "listen"]_vars

\* a SYN that also carries RST was dropped in Listen
C17_Witness ==
    /\ pc = "listen"
    /\ state = "Listen"
    /\ last.op = "drop"
    /\ last.seg.syn
    /\ last.seg.rst
    /\ ~last.seg.has_ack
    /\ tcb = NoTcb

\* ------------------------------------------------------------------------
\* C18
\* ------------------------------------------------------------------------

\* the step handles the segment last'.seg while the core waits for the peer
\* in a state after Listen
C18_PeerStep ==
    /\ CoreStep
    /\ pc \in {"syn_rcvd", "established", "fin_wait1", "fin_wait2", "close_wait_ack",
               "last_ack"}
    /\ last'.op \in {"recv", "drop"}

\* the segment is not from the latched peer to the local port
C18_Foreign(seg) ==
    \/ seg.src_ip # remote.addr
    \/ seg.src_port # remote.port
    \/ seg.dst_port # LocalPort

\* C18: in every state after Listen a segment from another source IP, or with
\* other ports than (local.port, remote.port), is dropped: TCB, queue and state
\* stay as they are and no segment is emitted.
C18_ForeignDropped ==
    [][(C18_PeerStep /\ C18_Foreign(last'.seg))
         => /\ last'.op = "drop"
            /\ ConnUnchanged
            /\ remote' = remote
            /\ out' = <<>>
            /\ toUser' = toUser
            /\ pc' = pc]_vars

\* a segment of another host that uses the peer's port was dropped while data
\* was unacknowledged
C18_Witness ==
    /\ pc = "established"
    /\ last.op = "drop"
    /\ last.seg.src_ip = Stranger.addr
    /\ last.seg.src_port = Peer.port
    /\ retransmission # <<>>
    /\ out = <<>>

\* ------------------------------------------------------------------------
\* C19
\* ------------------------------------------------------------------------

\* the core is at a receive of the user channel
C19_CoreAtUserReceive == pc \in {"await_open", "est_wait_user", "close_wait"}

\* the user thread is at a receive of the user channel
C19_UserAtReceive == upc \in {"await_tcb", "await_conn", "loop"}

\* what waits in either queue is what its receiver takes next
C19_Expected ==
    /\ upc # "panic"
    /\ toSys # <<>> => C19_CoreAtUserReceive
    /\ toUser # <<>> => C19_UserAtReceive
    /\ (pc = "await_open" /\ toSys # <<>>) => Head(toSys).type = "Open"
    /\ (pc \in {"est_wait_user", "close_wait"} /\ toSys # <<>>)
          => Head(toSys).type \in {"Data", "Close"}
    /\ (upc = "await_tcb" /\ toUser # <<>>) => Head(toUser).type = "TcbCreated"
    /\ (upc = "await_conn" /\ toUser # <<>>) => Head(toUser).type \in {"Connected", "Close"}
    /\ (upc = "loop" /\ toUser # <<>>) => Head(toUser).type \in {"Data", "Close"}

\* the two threads do not wait for each other
C19_NoMutualWait ==
    ~(/\ C19_CoreAtUserReceive
      /\ toSys = <<>>
      /\ C19_UserAtReceive
      /\ toUser = <<>>)

\* C19: on the user channel every message sent is one its receiver is prepared
\* to take at that point, and the core and the user thread never both wait on
\* an empty user channel.
C19_UserChannelDual == C19_Expected /\ C19_NoMutualWait

\* the user has answered the core's Close with Close and ended
C19_Witness ==
    /\ upc = "done"
    /\ state = "LastAck"
    /\ toSys = <<>>
    /\ toUser = <<>>

\* ------------------------------------------------------------------------
\* C20
\* ------------------------------------------------------------------------

\* s is a prefix of TcbCreated Close, or of TcbCreated Connected Data* Close
C20_SessionPrefix(s) ==
    /\ Len(s) >= 1 => s[1] = "TcbCreated"
    /\ Len(s) >= 2 => s[2] \in {"Connected", "Close"}
    /\ \A i \in 3..Len(s) : s[2] = "Connected" /\ s[i] \in {"Data", "Close"}
    /\ \A i \in 1..(Len(s) - 1) : s[i] # "Close"

\* the history grows by what the core's step sent, and only by that
C20_HistoryOfSends ==
    /\ Len(sent) >= Len(toUser)
    /\ \A i \in 1..Len(toUser) :
          toUser[i].type = sent[Len(sent) - Len(toUser) + i]

\* C20: the messages the core sends to the user form a prefix of TcbCreated
\* followed by either Close, or Connected, then any number of Data, then at
\* most one Close; Connected is sent at most once and before any Data, and
\* nothing is sent after Close.
C20_UserMessageOrder == C20_SessionPrefix(sent) /\ C20_HistoryOfSends

\* a whole session: data was delivered and then the peer's close
C20_Witness ==
    /\ Len(sent) >= 4
    /\ sent[3] = "Data"
    /\ sent[Len(sent)] = "Close"

\* ------------------------------------------------------------------------
\* C21
\* ------------------------------------------------------------------------

\* C21: the retransmission queue only ever holds data-bearing segments: no
\* queued segment has an empty payload, and no SYN or FIN segment is queued.
C21_QueueHoldsData ==
    \A i \in DOMAIN retransmission :
        /\ retransmission[i].payload # <<>>
        /\ retransmission[i].ctl = "None"

\* the FIN+ACK of the user's Close was sent while a data segment was queued,
\* the SYN+ACK having been sent before
C21_Witness ==
    /\ state = "FinWait1"
    /\ last.op = "user"
    /\ Len(Emitted) = 1
    /\ Emitted[1].ctl = "Fin"
    /\ retransmission # <<>>

\* ------------------------------------------------------------------------
\* C22
\* ------------------------------------------------------------------------

\* the core handles the user's Data and emits it in a segment
C22_DataEmitted ==
    /\ CoreStep
    /\ last'.op = "user"
    /\ Len(Emitted') = 1
    /\ Emitted'[1].payload # <<>>

\* the segment of the step carries an ACK number at or beyond the end of q
C22_Covered(q) ==
    /\ RecvStep
    /\ last'.seg.has_ack
    /\ seq_le(seq_add(q.seq, segment_len(q)), last'.seg.ack_number)

\* C22: every data-bearing segment the core emits for user Data, in
\* Established and in CloseWait alike, is appended to the retransmission queue
\* in the step that emits it, and a queued segment leaves the queue only in a
\* step whose segment acknowledges it.
C22_DataQueuedUntilAcked ==
    [][/\ C22_DataEmitted => retransmission' = Append(retransmission, Emitted'[1])
       /\ \A i \in DOMAIN retransmission :
             (\A j \in DOMAIN retransmission' : retransmission'[j] # retransmission[i])
                => C22_Covered(retransmission[i])
      ]_vars

\* ------------------------------------------------------------------------
\* C23
\* ------------------------------------------------------------------------

\* the core, waiting for the user's Data or Close, finds the channel disconnected
C23_Disconnected ==
    /\ CoreStep
    /\ pc \in {"est_wait_user", "close_wait"}
    /\ last'.op = "disconnect"

\* C23: when the user's endpoint disconnects while the core waits for a user
\* message, the core goes on as if the user had sent Close: it emits one
\* FIN+ACK with seq = snd_nxt and enters FinWait1 (from Established) or
\* LastAck (from CloseWait); it does not fail.
C23_DisconnectIsClose ==
    [][C23_Disconnected
         => /\ pc' # "panic"
            /\ Len(Emitted') = 1
            /\ Emitted'[1] = build_fin(remote, tcb).pkt
            /\ state' = (IF pc = "est_wait_user" THEN "FinWait1" ELSE "LastAck")]_vars

\* ------------------------------------------------------------------------
\* C24
\* ------------------------------------------------------------------------

\* C24: a malformed IP or TCP frame delivered by the transport is discarded:
\* the connection state, the TCB and the queue are unchanged, nothing is
\* emitted and the core stays at the same receive, where the next well-formed
\* segment is processed.
C24_MalformedDiscarded ==
    [][(CoreStep /\ last'.op \in RecvErrors)
         => /\ ConnUnchanged
            /\ out' = <<>>
            /\ pc' = pc]_vars

\* ------------------------------------------------------------------------
\* C25
\* ------------------------------------------------------------------------

\* the step handles, in Established, a segment that passes the sequence test
\* at seq <= rcv_nxt and has neither the ACK flag nor RST nor SYN
C25_MissingAck ==
    /\ RecvStep
    /\ pc = "established"
    /\ is_seg_acceptable(tcb, last'.seg)
    /\ seq_le(last'.seg.seq, tcb.rcv_nxt)
    /\ ~last'.seg.has_ack
    /\ last'.seg.ctl \notin {"Rst", "Syn"}

\* C25: in Established, a segment that passes the filter and the sequence test
\* at seq <= rcv_nxt but has no ACK flag (and is neither RST nor SYN) yields
\* NotAcceptable with no reply and no TCB change, and the core then fails hard:
\* it emits nothing and does not go on with the loop.
C25_MissingAckFails ==
    [][C25_MissingAck
         => /\ StepReaction = Reaction("NotAcceptable", <<>>, <<>>, tcb, retransmission)
            /\ ConnUnchanged
            /\ out' = <<>>
            /\ pc' = "panic"]_vars

\* the core failed on an in-sequence segment without flags
C25_Witness ==
    /\ pc = "panic"
    /\ state = "Established"
    /\ last.op = "recv"
    /\ last.seg.ctl = "None"
    /\ ~last.seg.has_ack
    /\ last.seg.seq = tcb.rcv_nxt
    /\ out = <<>>

\* ------------------------------------------------------------------------
\* C26
\* ------------------------------------------------------------------------

\* x lies in [rcv_nxt, rcv_nxt + wnd) modulo 2^32: it is fewer than wnd
\* sequence numbers after rcv_nxt
C26_InWindow(x, rcv_nxt, wnd) ==
    LET d == wrapping_sub(x, rcv_nxt)
    IN d >= 0 /\ d < wnd

\* the acceptance test of RFC 9293, 3.10.7.4
C26_Test(seq, len, rcv_nxt, wnd) ==
    \/ /\ len = 0
       /\ \/ wnd = 0 /\ seq = rcv_nxt
          \/ wnd > 0 /\ C26_InWindow(seq, rcv_nxt, wnd)
    \/ /\ len > 0
       /\ wnd > 0
       /\ \/ C26_InWindow(seq, rcv_nxt, wnd)
          \/ C26_InWindow(seq_sub(seq_add(seq, len), 1), rcv_nxt, wnd)

\* C26: with all comparisons modular, is_seg_acceptable returns true exactly
\* when len = 0 and (wnd = 0 and seq = rcv_nxt, or wnd > 0 and
\* rcv_nxt <= seq < rcv_nxt + wnd), or len > 0, wnd > 0 and the first or the
\* last sequence number of the segment lies in [rcv_nxt, rcv_nxt + wnd).
C26_AcceptanceTest ==
    (pc = "return" /\ last.op = "is_seg_acceptable")
       => out = <<C26_Test(last.seg.seq, segment_len(last.seg), tcb.rcv_nxt, tcb.rcv_wnd)>>

\* a segment that starts before rcv_nxt and ends inside the window, across
\* the wrap of the sequence space, was found acceptable
C26_Witness ==
    /\ pc = "return"
    /\ last.op = "is_seg_acceptable"
    /\ out = <<TRUE>>
    /\ tcb.rcv_nxt = MinI32
    /\ last.seg.seq = MaxI32 - 1
    /\ segment_len(last.seg) = 3

\* ------------------------------------------------------------------------
\* C27
\* ------------------------------------------------------------------------

\* C27: for every SYN that passes the Listen filter, recv_syn creates a TCB
\* with rcv_nxt = seg.seq + 1, rcv_wnd = 1000, snd_una = iss,
\* snd_wnd = seg.window, snd_wl1 = seg.seq, snd_wl2 = iss, emits a SYN+ACK with
\* seq = iss, ack = rcv_nxt, wnd = rcv_wnd, leaves snd_nxt = iss + 1 and
\* latches remote = (seg.src_ip, seg.src_port).
C27_RecvSyn ==
    [][(CoreStep /\ pc = "listen" /\ last'.op = "recv_syn")
         => /\ filter_listen(last'.seg)
            /\ tcb'.rcv_nxt = seq_add(last'.seg.seq, 1)
            /\ tcb'.rcv_wnd = 1000
            /\ tcb'.snd_una = Iss
            /\ tcb'.snd_wnd = last'.seg.window
            /\ tcb'.snd_wl1 = last'.seg.seq
            /\ tcb'.snd_wl2 = Iss
            /\ tcb'.snd_nxt = seq_add(Iss, 1)
            /\ Len(Emitted') = 1
            /\ Emitted'[1].ctl = "Syn"
            /\ Emitted'[1].has_ack
            /\ Emitted'[1].seq = Iss
            /\ Emitted'[1].ack_number = tcb'.rcv_nxt
            /\ Emitted'[1].window = tcb'.rcv_wnd
            /\ Emitted'[1].payload = <<>>
            /\ remote' = [addr |-> last'.seg.src_ip, port |-> last'.seg.src_port]
            /\ state' = "SynRcvd"]_vars

\* ------------------------------------------------------------------------
\* C28
\* ------------------------------------------------------------------------

\* the step handles, in SynRcvd, a segment that passes the sequence test at
\* seq <= rcv_nxt, is neither RST nor SYN, and acknowledges something outside
\* (snd_una, snd_nxt]
C28_BadAck ==
    /\ RecvStep
    /\ pc = "syn_rcvd"
    /\ is_seg_acceptable(tcb, last'.seg)
    /\ seq_le(last'.seg.seq, tcb.rcv_nxt)
    /\ last'.seg.ctl \notin {"Rst", "Syn"}
    /\ last'.seg.has_ack
    /\ ~(seq_lt(tcb.snd_una, last'.seg.ack_number) /\ seq_le(last'.seg.ack_number, tcb.snd_nxt))

\* C28: in SynRcvd, an in-sequence segment whose ACK number is outside
\* (snd_una, snd_nxt] makes the core emit one RST without ACK flag with seq
\* equal to the received ACK number, then send Close to the user and
\* terminate; the TCB is not updated, Connected has not been sent and nothing
\* is sent once the core has terminated.
C28_ResetInSynRcvd ==
    [][/\ C28_BadAck
          => /\ Len(out') = 2
             /\ out'[1].chan = "net"
             /\ out'[1].pkt.ctl = "Rst"
             /\ ~out'[1].pkt.has_ack
             /\ out'[1].pkt.seq = last'.seg.ack_number
             /\ out'[1].pkt.payload = <<>>
             /\ out'[2] = UserOut(Msg("Close", <<>>))
             /\ sent' = <<"TcbCreated", "Close">>
             /\ tcb' = tcb
             /\ state' = "Terminal"
             /\ pc' = "done"
       /\ pc = "done" => (sent' = sent /\ pc' = "done")
      ]_vars

\* the core answered a data segment that acknowledges nothing with a RST and ended
C28_Witness ==
    /\ pc = "done"
    /\ last.op = "recv"
    /\ last.seg.payload # <<>>
    /\ Len(Emitted) = 1
    /\ Emitted[1].ctl = "Rst"
    /\ Emitted[1].seq = tcb.snd_una
    /\ sent = <<"TcbCreated", "Close">>

\* ------------------------------------------------------------------------
\* C29
\* ------------------------------------------------------------------------

\* the step handles, in Established, a RST that passes the acceptance test
\* with seq other than rcv_nxt
C29_RstElsewhere ==
    /\ RecvStep
    /\ pc = "established"
    /\ last'.seg.ctl = "Rst"
    /\ is_seg_acceptable(tcb, last'.seg)
    /\ last'.seg.seq # tcb.rcv_nxt

\* C29: a RST that passes the acceptance test but whose seq differs from
\* rcv_nxt causes exactly one challenge ACK (seq = snd_nxt, ack = rcv_nxt) and
\* the connection is not torn down: state and TCB are unchanged.
C29_RstChallenged ==
    [][C29_RstElsewhere => (OneChallengeAck /\ pc' = "established")]_vars

\* ------------------------------------------------------------------------
\* C30
\* ------------------------------------------------------------------------

\* the step handles, in Established, a RST with seq = rcv_nxt
C30_CleanReset ==
    /\ RecvStep
    /\ pc = "established"
    /\ last'.seg.ctl = "Rst"
    /\ last'.seg.seq = tcb.rcv_nxt

\* C30: when a RST with seq = rcv_nxt arrives in Established, the core emits no
\* segment, ends the connection and sends Close to the user.
C30_ResetSurfaced ==
    [][C30_CleanReset
         => /\ Emitted' = <<>>
            /\ UserMsgs(out') = <<Msg("Close", <<>>)>>
            /\ toUser' = Append(toUser, Msg("Close", <<>>))
            /\ state' = "Terminal"
            /\ pc' = "done"]_vars

\* ------------------------------------------------------------------------
\* C31
\* ------------------------------------------------------------------------

\* the step handles, in Established, a SYN that passes the acceptance test
C31_SynInWindow ==
    /\ RecvStep
    /\ pc = "established"
    /\ last'.seg.ctl = "Syn"
    /\ is_seg_acceptable(tcb, last'.seg)

\* C31: every SYN that arrives on an established connection and passes the
\* acceptance test is answered with exactly one challenge ACK (seq = snd_nxt,
\* ack = rcv_nxt), the TCB and the connection state unchanged, whatever its
\* sequence number inside the window.
C31_SynChallenged ==
    [][C31_SynInWindow => (OneChallengeAck /\ pc' = "established")]_vars

\* ------------------------------------------------------------------------
\* C32
\* ------------------------------------------------------------------------

\* the step handles a segment inside the receive window that starts beyond rcv_nxt
C32_Gap ==
    /\ RecvStep
    /\ is_seg_acceptable(tcb, last'.seg)
    /\ seq_gt(last'.seg.seq, tcb.rcv_nxt)

\* C32: a segment inside the receive window with seg.seq > rcv_nxt is accepted
\* for window purposes only: its payload is not delivered to the user, no
\* segment is emitted in response, and no TCB field or queue entry changes.
C32_GapIgnored ==
    [][C32_Gap
         => /\ StepReaction = Reaction("Acceptable", <<>>, <<>>, tcb, retransmission)
            /\ \A i \in DOMAIN out' : out'[i].msg.type # "Data"
            /\ Emitted' = <<>>
            /\ tcb' = tcb
            /\ retransmission' = retransmission]_vars

\* in Established, with a segment queued, a data segment beyond rcv_nxt was
\* taken and the loop went on
C32_Witness ==
    /\ pc = "established"
    /\ last.op = "recv"
    /\ last.seg.payload # <<>>
    /\ last.seg.ctl = "None"
    /\ last.seg.has_ack
    /\ seq_gt(last.seg.seq, tcb.rcv_nxt)
    /\ retransmission # <<>>
    /\ out = <<>>

\* ------------------------------------------------------------------------
\* C33
\* ------------------------------------------------------------------------

\* the step handles an accepted segment with snd_una < ack <= snd_nxt
C33_AckInFlight ==
    /\ RecvStep
    /\ is_seg_acceptable(tcb, last'.seg)
    /\ last'.seg.has_ack
    /\ seq_lt(tcb.snd_una, last'.seg.ack_number)
    /\ seq_le(last'.seg.ack_number, tcb.snd_nxt)

\* the queue after the step is the queue before it without its k first segments
C33_PoppedHead(k) ==
    /\ retransmission' = SubSeq(retransmission, k + 1, Len(retransmission))
    /\ \A i \in 1..k :
          seq_le(seq_add(retransmission[i].seq, segment_len(retransmission[i])),
                 last'.seg.ack_number)

\* nothing leaves the queue in the step
C33_QueueKept ==
    /\ Len(retransmission') >= Len(retransmission)
    /\ SubSeq(retransmission', 1, Len(retransmission)) = retransmission

\* C33: snd_una changes only when an accepted segment carries
\* snd_una < ack <= snd_nxt, and then becomes exactly ack; a queued segment is
\* removed only in such a step, from the head, and only if its
\* seq + len <= ack; a segment with ack <= snd_una leaves snd_una and the
\* queue unchanged.
C33_SndUnaAndQueue ==
    [][(state \in ConnStates)
         => /\ tcb'.snd_una # tcb.snd_una
                 => (C33_AckInFlight /\ tcb'.snd_una = last'.seg.ack_number)
            /\ ~C33_QueueKept
                 => (C33_AckInFlight /\ \E k \in 1..Len(retransmission) : C33_PoppedHead(k))
            /\ (RecvStep /\ last'.seg.has_ack /\ seq_le(last'.seg.ack_number, tcb.snd_una))
                 => (tcb'.snd_una = tcb.snd_una /\ retransmission' = retransmission)]_vars

\* of two queued segments an ACK took the first and left the second
C33_Witness ==
    /\ last.op = "recv"
    /\ last.seg.has_ack
    /\ Len(retransmission) = 1
    /\ tcb.snd_una = last.seg.ack_number
    /\ retransmission[1].seq = tcb.snd_una
    /\ seq_gt(tcb.snd_una, seq_add(Iss, 1))

\* ------------------------------------------------------------------------
\* C34
\* ------------------------------------------------------------------------

\* what the call adds to snd_nxt: the payload length for build_ack, 1 for build_fin
C34_Advance == IF last.op = "build_fin" THEN 1 ELSE Len(last.seg.payload)

\* C34: every segment built by build_ack or build_fin carries seq = snd_nxt as
\* it was before the call, ack = rcv_nxt and wnd = rcv_wnd, and the call
\* advances snd_nxt by exactly the payload length for a data ACK, by 1 for a
\* FIN and by 0 for an empty ACK, modulo 2^32, and changes nothing else of
\* the TCB.
C34_BuiltSegment ==
    [][(pc = "call" /\ pc' = "return")
         => /\ Len(Emitted') = 1
            /\ Emitted'[1].seq = tcb.snd_nxt
            /\ Emitted'[1].has_ack
            /\ Emitted'[1].ack_number = tcb.rcv_nxt
            /\ Emitted'[1].window = tcb.rcv_wnd
            /\ Emitted'[1].ctl = (IF last.op = "build_fin" THEN "Fin" ELSE "None")
            /\ Emitted'[1].payload = last.seg.payload
            /\ wrapping_sub(tcb'.snd_nxt, tcb.snd_nxt) = C34_Advance
            /\ tcb' = [tcb EXCEPT !.snd_nxt = tcb'.snd_nxt]]_vars

\* a data ACK of three bytes took snd_nxt across the wrap of the i32
C34_Witness ==
    /\ pc = "return"
    /\ last.op = "build_ack"
    /\ Len(last.seg.payload) = 3
    /\ Emitted[1].seq = MaxI32 - 1
    /\ tcb.snd_nxt = MinI32 + 1

\* ------------------------------------------------------------------------
\* C35
\* ------------------------------------------------------------------------

\* C35: whenever everything sent has been acknowledged (snd_una = snd_nxt)
\* the retransmission queue is empty.
C35_AllAckedQueueEmpty ==
    (state \in ConnStates /\ tcb.snd_una = tcb.snd_nxt) => retransmission = <<>>

\* the peer's ACK of the last byte sent has just drained a queue of two segments
C35_Witness ==
    /\ state = "Established"
    /\ last.op = "recv"
    /\ last.seg.ack_number = tcb.snd_nxt
    /\ tcb.snd_una = tcb.snd_nxt
    /\ wrapping_sub(tcb.snd_nxt, seq_add(Iss, 1)) >= 4
    /\ retransmission = <<>>

\* ------------------------------------------------------------------------
\* C36
\* ------------------------------------------------------------------------

\* C36: rcv_nxt never decreases in the modular order, in any state of the
\* connection: every step that changes it sets it to a later value.
C36_RcvNxtMonotonic ==
    [][(state \in ConnStates) => seq_le(tcb.rcv_nxt, tcb'.rcv_nxt)]_vars

\* a segment took rcv_nxt across the wrap of the sequence space, at least
\* three past the peer's initial sequence number
C36_Witness ==
    /\ state \in ConnStates
    /\ last.op = "recv"
    /\ segment_len(last.seg) > 0
    /\ tcb.rcv_nxt = seq_add(last.seg.seq, segment_len(last.seg))
    /\ irs = MaxI32 - 1
    /\ tcb.rcv_nxt < 0
    /\ wrapping_sub(tcb.rcv_nxt, irs) >= 3

\* ------------------------------------------------------------------------
\* C37
\* ------------------------------------------------------------------------

\* C37: the Timeout branch of the Established loop is only ever taken while
\* the retransmission queue is non-empty: the deadline is armed only with a
\* segment queued, and the core never fails with "Nothing to retransmit".
C37_TimeoutHasSegment ==
    /\ (pc = "established" /\ timeout) => retransmission # <<>>
    /\ last.op = "timeout" => (pc = "established" /\ retransmission # <<>>)

\* the deadline passed with one segment queued and that segment was sent again
C37_Witness ==
    /\ last.op = "timeout"
    /\ pc = "established"
    /\ Len(retransmission) = 1
    /\ Emitted = retransmission
    /\ timeout

\* ------------------------------------------------------------------------
\* C38
\* ------------------------------------------------------------------------

\* C38: whenever the core waits for a peer segment in Established while the
\* retransmission queue is non-empty, a retransmission deadline is armed (so
\* that a segment the peer never acknowledges is eventually retransmitted,
\* whatever the peer sends in between).
C38_DeadlineArmed ==
    (pc = "established" /\ retransmission # <<>>) => timeout

\* ------------------------------------------------------------------------
\* C39
\* ------------------------------------------------------------------------

\* C39: for every segment that passes the filter in SynRcvd or Established,
\* the reaction the engine computes is one the branch chosen by the picker
\* has a live arm for: no match arm marked unreachable!() is reached.
C39_NoUnreachableArm ==
    [][(RecvStep /\ pc \in {"syn_rcvd", "established"})
         => ~unreachable_arm(pc, last'.seg, StepReaction)]_vars

\* ------------------------------------------------------------------------
\* C40
\* ------------------------------------------------------------------------

C40_FinStates == {"FinWait1", "FinWait2", "LastAck"}

C40_NoDataNoFin(pkts) ==
    \A i \in 1..Len(pkts) : pkts[i].payload = <<>> /\ pkts[i].ctl # "Fin"

\* C40: the step that emits the core's FIN leaves snd_nxt at the FIN's sequence
\* number + 1, and from then on (FinWait1, FinWait2, LastAck) no step emits a
\* segment with payload or another FIN, and no step changes snd_nxt.
C40_QuietAfterFin ==
    [][/\ (state \notin C40_FinStates /\ state' \in C40_FinStates)
            => /\ Len(Emitted') = 1
               /\ Emitted'[1].ctl = "Fin"
               /\ tcb'.snd_nxt = seq_add(Emitted'[1].seq, 1)
       /\ (state \in C40_FinStates)
            => /\ CoreStep => C40_NoDataNoFin(Emitted')
               /\ tcb'.snd_nxt = tcb.snd_nxt]_vars

\* FinWait2 has answered a segment of the peer with an ACK after the FIN
C40_Witness ==
    /\ state = "FinWait2"
    /\ last.op = "recv"
    /\ Len(Emitted) = 1
    /\ Emitted[1].ctl = "None"
    /\ tcb.snd_nxt = seq_add(Iss, 2)

\* LastAck: the FIN went out after the peer's, and snd_nxt is past it
C40_WitnessLastAck ==
    /\ state = "LastAck"
    /\ Len(Emitted) = 1
    /\ Emitted[1].ctl = "Fin"
    /\ tcb.snd_nxt = seq_add(Emitted[1].seq, 1)

====
